---- MODULE Spec2Model ----
(***************************************************************************)
(* Model of the RTSP control plane of src/rtsp.c: the conversation         *)
(* workers, the method handlers, the process-wide session slot             *)
(* (playing_conn), the per-connection watchdog and the listener.           *)
(*                                                                         *)
(* Each worker is a sequential thread.  A step of the model is a piece of  *)
(* its code that makes one access to state shared with other threads: a    *)
(* region under playing_conn_lock, a test of conn->stop, a call of the     *)
(* player.  What a thread does with its own locals between two such        *)
(* accesses belongs to the step before.  Deferred cancellation             *)
(* (pthread_cancel) is a pending flag that takes effect at the worker's    *)
(* cancellation points: the blocking read, the usleep of the ANNOUNCE wait *)
(* loop and the write of the response.                                     *)
(*                                                                         *)
(* Further parts stand beside it, each with its own specification: the     *)
(* reference-counted messages with the sink queues and their consumers     *)
(* (QueueSpec, StopSpec), the worker's loop with a password configured     *)
(* (AuthSpec), rtsp_read_request byte by byte (ReadSpec), handle_setup     *)
(* with its ports (SetupSpec), the worker's loop with the replies of       *)
(* rtsp_read_request and the results of msg_write_response (LoopSpec),     *)
(* the watchdog with its clock (DogSpec), one pass of the reaper over the  *)
(* tracking table (ReapSpec), the metadata batch of a SET_PARAMETER        *)
(* request at a sink (BatchSpec), rtsp_read_request character by character *)
(* on a stream that the socket splits (SplitSpec), the walk over the       *)
(* tuples of a DMAP body (WalkSpec), and msg_retain and msg_free on        *)
(* message handles (HandleSpec).                                           *)
(***************************************************************************)
EXTENDS Integers, FiniteSets, Sequences, TLC

\* ------------------------------------------------------------------ bounds
NConns == 3          \* connections the listener accepts
MaxEvents == 3       \* events in a behaviour: requests read, over all
                     \*   connections, and events from outside
MaxFaults == 1       \* the events from outside among them: closed or
                     \*   failing reads, failing writes, watchdog barks,
                     \*   requests to stop the workers
NProducers == 2      \* request handlers that publish metadata
NSinks == 1          \* sinks (of pipe, multicast, hub, mqtt)
NMsgs == 3           \* request messages created in a behaviour
Capacity == 2        \* the_queue->capacity (500 in the program)
MaxSends == 1        \* send_metadata calls of one request
NAuthConns == 2      \* connections of the authorization part
MaxAuthReqs == 3     \* requests read in a behaviour of that part
MaxRequests == 2     \* requests the sender of the reading part writes
MaxBody == 2         \* the largest Content-Length among them
MaxTime == 3         \* the clock of the reading part stops there
MaxSetups == 3       \* SETUP requests handled in a behaviour of the SETUP part
MaxReads == 4        \* rtsp_read_request calls of the worker of the loop part
MaxDogTime == 7      \* the clock of the watchdog part stops there
IdleTimeout == 2     \* config.timeout where it is not 0 (120 by default),
                     \*   in periods of the watchdog
MaxTable == 4        \* the largest nconns at the start of a pass of the reaper
MaxTuples == 2       \* DMAP tuples in the body of a SET_PARAMETER request
MaxOthers == 1       \* items that another request sends beside a batch
MaxHeaders == 2      \* header lines of the request that the socket splits
MaxTurns == 4        \* turns of the loop of a walk over a DMAP body
MaxHandleMsgs == 2   \* messages made in a behaviour of the handle part
MaxRetains == 2      \* the largest referenceCount there

\* ------------------------------------------------------- program constants
WaitBudget == 3000000    \* int time_remaining = 3000000
PollInterval == 100000   \* usleep(100000); time_remaining -= 100000
EBUSY == 16              \* "if (rc == EBUSY) return EBUSY;"
EWOULDBLOCK == 11        \* "response = EWOULDBLOCK;"
buflen == 4096           \* ssize_t buflen = 4096
max_read_chunk == 65536  \* ssize_t max_read_chunk = 1024 * 1024 / 16
StallThreshold == 1      \* 15000000000 ns, the unit of the clock being 15 s

NULL == 0
Conns == 1..NConns

VARIABLES
    playing_conn,                 \* the session slot: NULL or a connection
    allow_session_interruption,   \* config.allow_session_interruption
    pc,                           \* position of each worker
    stop,                         \* conn->stop
    cancel,                       \* a pthread_cancel of the worker is pending
    running,                      \* conn->running
    tracked,                      \* conns[]: the connections being tracked
    listener,                     \* the connection whose worker the listener
                                  \*   has created and not yet tracked
    stopper,                      \* the connection that a thread asking the
                                  \*   workers to stop has cancelled and joins
    player_thread,                \* conn->player_thread # NULL
    rtp_running,                  \* conn->rtp_running
    local_audio_port,             \* conn->local_audio_port
    attempt_count,                \* rtsp_read_request_attempt_count
    watchdog_barks,               \* conn->watchdog_barks
    method,                       \* req->method of the request being handled
    resp,                         \* the response being built
    hp,                           \* what have_player(conn) returned to the
                                  \*   handler that is running
    have_the_player,              \* the locals of handle_announce
    should_wait,
    interrupting_current_session,
    time_remaining,
    player_call,                  \* the player_* call made by this step
    nreq,                         \* requests read so far
    nfaults,                      \* outside events so far
    \* the messages
    referenceCount,               \* msg->referenceCount
    freed,                        \* how often free(msg) has run for a message
    msg_indexes,                  \* the index of the next message
    retains,                      \* msg_retain calls for a message so far
    releases,                     \* msg_free calls for a message so far
    copies,                       \* the memdup copies that are allocated
    \* the sink queues
    count, toq, eoq, items,       \* the fields of each pc_queue
    pc_queue_lock,                \* the thread that holds the queue's lock
    added, taken,                 \* how many packages have been added to and
                                  \*   taken from each queue so far
    \* the request handlers
    ppc,                          \* position of each handler
    preq,                         \* its request message
    psends,                       \* send_metadata calls of the request so far
    call,                         \* the send_metadata call that is running
    \* the consumers
    cpc,                          \* position of the consumer of each sink
    pack,                         \* its local package
    ccancel,                      \* a pthread_cancel of it is pending
    deleted,                      \* pc_queue_delete has run for the queue
    \* the authorization
    password,                     \* config.password is set
    authorized,                   \* conn->authorized
    auth_nonce,                   \* conn->auth_nonce
    areq, aresp,                  \* the request and the response of the
                                  \*   iteration
    dispatched,                   \* a method handler ran for the request
    apc,                          \* position of the worker
    nareq,                        \* requests read so far
    \* rtsp_read_request
    reader,                       \* the sender, the clock and the call of
                                  \*   rtsp_read_request: a record
    conn_stop,                    \* conn->stop of the reading connection
    \* handle_setup
    setup,                        \* the connection that is set up: a record
    \* the worker's loop
    worker,                       \* the worker of the loop part: a record
    \* the watchdog
    watchdog,                     \* the watchdog, its connection and the
                                  \*   configuration: a record
    \* the reaper
    reaper,                       \* one pass of cleanup_threads: a record
    \* the batch of a SET_PARAMETER request
    batch,                        \* the request, the queue of a sink and what
                                  \*   its consumer has taken: a record
    \* rtsp_read_request on a stream that the socket splits
    splitter,                     \* the stream, the split and the locals of
                                  \*   the call: a record
    \* handle_set_parameter_metadata
    walk,                         \* the body, off and what the turns of the
                                  \*   loop did: a record
    \* msg_retain and msg_free on handles
    handles                       \* reference_counter_lock, the messages and
                                  \*   the handles of the threads: a record

cvars == <<playing_conn, allow_session_interruption, pc, stop, cancel, running,
          tracked, listener, stopper, player_thread, rtp_running,
          local_audio_port, attempt_count, watchdog_barks, method, resp, hp,
          have_the_player, should_wait, interrupting_current_session,
          time_remaining, player_call, nreq, nfaults>>

qvars == <<referenceCount, freed, msg_indexes, retains, releases, copies,
           count, toq, eoq, items, pc_queue_lock, added, taken,
           ppc, preq, psends, call, cpc, pack, ccancel, deleted>>

avars == <<password, authorized, auth_nonce, areq, aresp, dispatched, apc,
           nareq>>

\* the fields of the record "reader"
script == reader.script                \* the bytes the sender has yet to write
wire == reader.wire                    \* the bytes written and not yet read
closed == reader.closed                \* the sender has closed the connection
rpc == reader.rpc                      \* position in rtsp_read_request
buf == reader.buf                      \* buf[0 .. inbuf)
msg_size == reader.msg_size
the_packet == reader.the_packet        \* *the_packet
reply == reader.reply
now == reader.now                      \* get_absolute_time_in_ns()
threshold_time == reader.threshold_time
warning_message_sent == reader.warning_message_sent
stal == reader.stal                    \* 'stal' events published by the call

\* the parts that stand beside the conversations, the sinks and the
\* authorization
rvars == <<reader, conn_stop>>

\* the fields of the record "setup"
holds_player == setup.holds_player           \* playing_conn == conn
conn_rtp_running == setup.conn_rtp_running   \* conn->rtp_running
remote_ports == setup.remote_ports     \* conn->remote_control_port,
                                       \*   _timing_port
local_ports == setup.local_ports       \* conn->local_control_port,
                                       \*   _timing_port, _audio_port
rtp_setups == setup.rtp_setups         \* rtp_setup calls so far
setups == setup.setups                 \* the SETUP requests handled so far

svars == <<setup>>

\* the fields of the record "worker"
wpc == worker.wpc                      \* position of the worker
conn_player_thread == worker.conn_player_thread   \* conn->player_thread # NULL
rtsp_read_request_attempt_count == worker.rtsp_read_request_attempt_count
linger_zero == worker.linger_zero      \* SO_LINGER is set with l_linger 0
replies == worker.replies              \* what the rtsp_read_request calls so
                                       \*   far have returned
dispatches == worker.dispatches        \* handlers called for the request
responses == worker.responses          \* responses written for the request
write_err == worker.write_err          \* what the last msg_write_response
                                       \*   returned

lvars == <<worker>>

\* the fields of the record "watchdog"
dog_time == watchdog.dog_time          \* get_absolute_time_in_ns(), in periods
                                       \*   of the watchdog (2 s)
timeout == watchdog.timeout            \* config.timeout
dont_check_timeout == watchdog.dont_check_timeout   \* config.dont_check_timeout
cmd_unfixable == watchdog.cmd_unfixable             \* config.cmd_unfixable is set
watchdog_bark_time == watchdog.watchdog_bark_time   \* conn->watchdog_bark_time
conn_watchdog_barks == watchdog.conn_watchdog_barks \* conn->watchdog_barks
unfixable_error_reported == watchdog.unfixable_error_reported
commands == watchdog.commands          \* command_execute calls so far
stops_set == watchdog.stops_set        \* how often the watchdog has set
                                       \*   conn->stop
cancels_sent == watchdog.cancels_sent  \* how often it has cancelled the worker
dog_pc == watchdog.dog_pc              \* the watchdog thread: running or ended
worker_pc == watchdog.worker_pc        \* its worker: in its loop or cleaned up
last_request == watchdog.last_request  \* when the worker parsed its last
                                       \*   request

dvars == <<watchdog>>

\* the parts made of steps of one thread over data of its own
yvars == <<reaper, batch, splitter, walk, handles>>

xvars == <<rvars, svars, lvars, dvars, yvars>>

vars == <<cvars, qvars, avars, xvars>>

\* ---------------------------------------------------------------- requests
Methods == {"OPTIONS", "ANNOUNCE", "FLUSH", "TEARDOWN", "SETUP",
            "GET_PARAMETER", "SET_PARAMETER", "RECORD", "PAUSE"}

\* method_handlers[]: the methods that have a handler
method_handlers == {"OPTIONS", "ANNOUNCE", "FLUSH", "TEARDOWN", "SETUP",
                    "GET_PARAMETER", "SET_PARAMETER", "RECORD"}

\* What the handlers read of a request besides its method; each is drawn by
\* the step that reads it.
\*   the ANNOUNCE body: has it the a=rtpmap:96 L16/44100/2 line, an a=fmtp:
\*     line, the a=aesiv: / a=rsaaeskey: lines (aes), and the lengths that
\*     base64_dec and rsa_apply give for them
\*   the SETUP Transport header
\*   the SET_PARAMETER Content-Type and the kind of its body
\*   the RTP-Info: rtptime= header of RECORD
SDPs == [rtpmap : BOOLEAN, fmtp : BOOLEAN, aes : {FALSE}, ivlen : {0}, keylen : {0}]
        \cup [rtpmap : {TRUE}, fmtp : {FALSE}, aes : {TRUE},
              ivlen : {15, 16}, keylen : {15, 16}]
Transports == {"none", "no_control_port", "no_timing_port", "full"}
ContentTypes == {"none", "text/parameters:volume", "text/parameters:other"}

\* resp = msg_init(); resp->respcode = 400; ... msg_add_header(resp, "Server", ...)
NewResponse == [respcode |-> 400, headers |-> {"Server: AirTunes/105.1"}]
NoResponse == [respcode |-> 0, headers |-> {}]

SetCode(r, code) == [r EXCEPT !.respcode = code]
AddHeader(r, h) == [r EXCEPT !.headers = @ \cup {h}]

\* A call of player_play / player_flush / player_stop / player_volume for
\* connection c, with the value the session slot has at the call.
NoCall == [fn |-> "none", conn |-> NULL, slot |-> NULL]
PlayerCall(fn, c) == [fn |-> fn, conn |-> c, slot |-> playing_conn]

\* ------------------------------------------------- the player and the RTP
\* What the handlers see of player_play and player_stop: conn->player_thread
\* is set while the player of the connection runs.
player_play(c) == [player_thread EXCEPT ![c] = 1]
player_stop(c) == [player_thread EXCEPT ![c] = 0]

\* What handle_setup sees of rtp_setup: on success the RTP side runs and the
\* local ports are set, on failure the connection is left as it was.
rtp_setup_running(c, ok) == IF ok THEN [rtp_running EXCEPT ![c] = 1] ELSE rtp_running
rtp_setup_audio_port(c, ok) ==
    IF ok THEN [local_audio_port EXCEPT ![c] = 1] ELSE local_audio_port

TypeOK ==
    /\ playing_conn \in {NULL} \cup Conns
    /\ allow_session_interruption \in {0, 1}
    /\ pc \in [Conns -> {"unborn", "read", "handler", "setup_release",
                         "announce_wait", "announce_parse", "announce_release",
                         "respond", "cleanup", "cleanup_slot", "cleanup_running",
                         "exited"}]
    /\ stop \in [Conns -> {0, 1}]
    /\ cancel \in [Conns -> BOOLEAN]
    /\ running \in [Conns -> {0, 1}]
    /\ tracked \subseteq Conns
    /\ listener \in {NULL} \cup Conns
    /\ stopper \in {NULL} \cup Conns
    /\ player_thread \in [Conns -> {0, 1}]
    /\ rtp_running \in [Conns -> {0, 1}]
    /\ local_audio_port \in [Conns -> {0, 1}]
    /\ attempt_count \in [Conns -> {0, 1}]
    /\ watchdog_barks \in [Conns -> 0..MaxFaults]
    /\ method \in [Conns -> Methods \cup {"none"}]
    /\ resp \in [Conns -> [respcode : {0, 200, 400, 451, 453, 456},
                           headers : SUBSET {"Server: AirTunes/105.1", "Public",
                                             "Audio-Latency: 11025", "Connection: close",
                                             "Transport", "Session: 1"}]]
    /\ hp \in [Conns -> {0, 1}]
    /\ have_the_player \in [Conns -> {0, 1}]
    /\ should_wait \in [Conns -> {0, 1}]
    /\ interrupting_current_session \in [Conns -> {0, 1}]
    /\ time_remaining \in [Conns -> 0..WaitBudget]
    /\ player_call \in [fn : {"none", "play", "flush", "stop", "volume"},
                        conn : {NULL} \cup Conns, slot : {NULL} \cup Conns]
    /\ nreq \in 0..MaxEvents
    /\ nfaults \in 0..MaxFaults

\* The state at process start: no connection accepted, the slot empty.  The
\* configuration is fixed at start and never changes.
ConnInit ==
    /\ playing_conn = NULL
    /\ allow_session_interruption \in {0, 1}
    /\ pc = [c \in Conns |-> "unborn"]
    /\ stop = [c \in Conns |-> 0]
    /\ cancel = [c \in Conns |-> FALSE]
    /\ running = [c \in Conns |-> 0]
    /\ tracked = {}
    /\ listener = NULL
    /\ stopper = NULL
    /\ player_thread = [c \in Conns |-> 0]
    /\ rtp_running = [c \in Conns |-> 0]
    /\ local_audio_port = [c \in Conns |-> 0]
    /\ attempt_count = [c \in Conns |-> 1]
    /\ watchdog_barks = [c \in Conns |-> 0]
    /\ method = [c \in Conns |-> "none"]
    /\ resp = [c \in Conns |-> NoResponse]
    /\ hp = [c \in Conns |-> 0]
    /\ have_the_player = [c \in Conns |-> 0]
    /\ should_wait = [c \in Conns |-> 0]
    /\ interrupting_current_session = [c \in Conns |-> 0]
    /\ time_remaining = [c \in Conns |-> 0]
    /\ player_call = NoCall
    /\ nreq = 0
    /\ nfaults = 0

\* The variables a step leaves alone are written as a frame: "Only(S)" says
\* that every variable outside the set S of names is unchanged.
Only(S) ==
    /\ UNCHANGED qvars
    /\ UNCHANGED avars
    /\ UNCHANGED xvars
    /\ IF "playing_conn" \in S THEN TRUE ELSE UNCHANGED playing_conn
    /\ UNCHANGED allow_session_interruption
    /\ IF "pc" \in S THEN TRUE ELSE UNCHANGED pc
    /\ IF "stop" \in S THEN TRUE ELSE UNCHANGED stop
    /\ IF "cancel" \in S THEN TRUE ELSE UNCHANGED cancel
    /\ IF "running" \in S THEN TRUE ELSE UNCHANGED running
    /\ IF "tracked" \in S THEN TRUE ELSE UNCHANGED tracked
    /\ IF "listener" \in S THEN TRUE ELSE UNCHANGED listener
    /\ IF "stopper" \in S THEN TRUE ELSE UNCHANGED stopper
    /\ IF "player_thread" \in S THEN TRUE ELSE UNCHANGED player_thread
    /\ IF "rtp" \in S THEN TRUE ELSE UNCHANGED <<rtp_running, local_audio_port>>
    /\ IF "attempt_count" \in S THEN TRUE ELSE UNCHANGED attempt_count
    /\ IF "watchdog_barks" \in S THEN TRUE ELSE UNCHANGED watchdog_barks
    /\ IF "method" \in S THEN TRUE ELSE UNCHANGED method
    /\ IF "resp" \in S THEN TRUE ELSE UNCHANGED resp
    /\ IF "hp" \in S THEN TRUE ELSE UNCHANGED hp
    /\ IF "announce" \in S THEN TRUE ELSE UNCHANGED <<have_the_player, should_wait,
                          interrupting_current_session, time_remaining>>
    /\ IF "player_call" \in S THEN TRUE ELSE player_call' = NoCall
    /\ IF "nreq" \in S THEN TRUE ELSE UNCHANGED nreq
    /\ IF "nfaults" \in S THEN TRUE ELSE UNCHANGED nfaults

\* The events so far.
Events == nreq + nfaults

\* An event from outside the conversations.
Fault ==
    /\ Events < MaxEvents
    /\ nfaults < MaxFaults
    /\ nfaults' = nfaults + 1

\* ------------------------------------------------------------ the listener
\* rtsp_listen_loop: accept a connection (its record is zeroed) and create
\* its worker.  Connection numbers are handed out in increasing order.  The
\* worker runs from here on; the listener marks it running and tracks it in
\* a later step of its own.
Accept(c) ==
    /\ listener = NULL
    /\ pc[c] = "unborn"
    /\ \A d \in Conns : d < c => pc[d] # "unborn"
    /\ pc' = [pc EXCEPT ![c] = "read"]
    /\ listener' = c
    /\ Only({"pc", "listener"})

\* conn->running = 1; track_thread(conn);
Track(c) ==
    /\ listener = c
    /\ running' = [running EXCEPT ![c] = 1]
    /\ tracked' = tracked \cup {c}
    /\ listener' = NULL
    /\ Only({"running", "tracked", "listener"})

\* ask_other_rtsp_conversation_threads_to_stop, one turn of its loop: a
\* tracked connection that is marked running is cancelled and then joined.
StopperCancel(c) ==
    /\ stopper = NULL
    /\ c \in tracked
    /\ running[c] # 0
    /\ Fault
    /\ cancel' = [cancel EXCEPT ![c] = TRUE]
    /\ stopper' = c
    /\ Only({"cancel", "stopper", "nfaults"})

\* ... pthread_join returns when the worker has ended.
StopperJoin(c) ==
    /\ stopper = c
    /\ pc[c] = "exited"
    /\ stopper' = NULL
    /\ Only({"stopper"})

\* ------------------------------------------------------------ the watchdog
\* The watchdog thread of a connection exists from the start of the worker
\* until the worker's cleanup has cancelled and joined it.
WatchdogAlive(c) ==
    pc[c] \notin {"unborn", "cleanup_slot", "cleanup_running", "exited"}

\* A watchdog that sets stop at every bark (the variant against which C28 is
\* tried).
EveryBark(barks) == barks >= 1

\* player_watchdog_thread_code, one bark: the time since
\* conn->watchdog_bark_time has reached config.timeout.  The first bark sets
\* stop and cancels the worker.
FirstBark(barks) == barks = 1

WatchdogBark(c) ==
    /\ WatchdogAlive(c)
    /\ Fault
    /\ watchdog_barks' = [watchdog_barks EXCEPT ![c] = @ + 1]
    /\ IF FirstBark(watchdog_barks[c] + 1)
          THEN /\ stop' = [stop EXCEPT ![c] = 1]
               /\ cancel' = [cancel EXCEPT ![c] = TRUE]
          ELSE UNCHANGED <<stop, cancel>>
    /\ Only({"watchdog_barks", "stop", "cancel", "nfaults"})

\* ------------------------------------------------------- the session slot
\* have_player(conn)
have_player(c) == IF playing_conn = c THEN 1 ELSE 0

\* A release that releases nothing (the variant against which C8 is tried).
KeptSlot(c) == playing_conn

\* A release without its test, which empties the slot whoever holds it (the
\* variant against which C33 is tried).
ClearedSlot(c) == NULL

\* "if (playing_conn == conn) playing_conn = NULL": the value the slot has
\* after connection c has let it go.
ReleasedSlot(c) == IF playing_conn = c THEN NULL ELSE playing_conn

\* -------------------------------------------------------------- the worker
\* rtsp_conversation_thread_func: rtsp_read_request returns a request with
\* method m (no password is configured: rtsp_auth returns 0 and the request
\* goes to the method lookup).
Receive(c, m) ==
    /\ pc[c] = "read"
    /\ stop[c] = 0
    /\ ~cancel[c]
    /\ Events < MaxEvents
    /\ nreq' = nreq + 1
    /\ method' = [method EXCEPT ![c] = m]

\* The iteration of the worker's loop ends: the locals of the handler that
\* ran in it are gone.
LeaveHandler(c) ==
    /\ hp' = [hp EXCEPT ![c] = 0]
    /\ have_the_player' = [have_the_player EXCEPT ![c] = 0]
    /\ should_wait' = [should_wait EXCEPT ![c] = 0]
    /\ interrupting_current_session' = [interrupting_current_session EXCEPT ![c] = 0]
    /\ time_remaining' = [time_remaining EXCEPT ![c] = 0]

\* The handler returns with response r.
Return(c, r) ==
    /\ resp' = [resp EXCEPT ![c] = r]
    /\ pc' = [pc EXCEPT ![c] = "respond"]

\* rtsp_read_request returns channel_closed or read_error: with a player the
\* attempt counter decides, without one the connection is terminated.
ReadFail(c) ==
    /\ pc[c] = "read"
    /\ stop[c] = 0
    /\ ~cancel[c]
    /\ Fault
    /\ LET attempts == IF player_thread[c] # 0 THEN attempt_count[c] - 1
                                               ELSE attempt_count[c]
           tstop == IF player_thread[c] # 0 THEN attempts = 0 ELSE TRUE
       IN  /\ attempt_count' = [attempt_count EXCEPT ![c] = attempts]
           /\ stop' = [stop EXCEPT ![c] = IF tstop THEN 1 ELSE @]
    /\ Only({"attempt_count", "stop", "nfaults"})

\* "while (conn->stop == 0)" ends, or rtsp_read_request sees stop set and
\* returns immediate_shutdown_requested: the worker leaves its loop and
\* pthread_cleanup_pop(1) runs the cleanup.
LoopExit(c) ==
    /\ pc[c] = "read"
    /\ stop[c] # 0
    /\ pc' = [pc EXCEPT ![c] = "cleanup"]
    /\ Only({"pc"})

\* A pending cancellation is acted on at a cancellation point: the read of
\* the request, the usleep of the ANNOUNCE wait, the write of the response.
\* The cleanup handlers run: the messages are freed, then the conversation
\* cleanup starts.
AtCancellationPoint(c) ==
    \/ pc[c] = "read"
    \/ pc[c] = "announce_wait"
    \/ pc[c] = "respond" /\ stop[c] = 0

Cancelled(c) ==
    /\ cancel[c]
    /\ AtCancellationPoint(c)
    /\ LeaveHandler(c)
    /\ resp' = [resp EXCEPT ![c] = NoResponse]
    /\ pc' = [pc EXCEPT ![c] = "cleanup"]
    /\ method' = [method EXCEPT ![c] = "none"]
    /\ Only({"pc", "method", "resp", "hp", "announce"})

\* The end of an iteration: "if (conn->stop == 0) msg_write_response(...)";
\* a write error sets stop.  The two messages are freed.
StopAfterWrite(err) == IF err THEN 1 ELSE 0

Respond(c, err) ==
    /\ pc[c] = "respond"
    /\ IF stop[c] = 0
          THEN /\ ~cancel[c]
               /\ stop' = [stop EXCEPT ![c] = StopAfterWrite(err)]
               /\ IF err THEN Fault ELSE UNCHANGED nfaults
          ELSE /\ ~err
               /\ UNCHANGED <<stop, nfaults>>
    /\ pc' = [pc EXCEPT ![c] = "read"]
    /\ method' = [method EXCEPT ![c] = "none"]
    /\ resp' = [resp EXCEPT ![c] = NoResponse]
    /\ LeaveHandler(c)
    /\ Only({"pc", "stop", "method", "resp", "nfaults", "hp", "announce"})

\* ------------------------------------------------------------- the cleanup
\* rtsp_conversation_thread_cleanup_function, up to the join of the
\* watchdog: "if (conn->player_thread) player_stop(conn)", the sockets,
\* rtp_terminate, the strings, the mutexes, the watchdog.
CleanupPlayer(c) ==
    /\ pc[c] = "cleanup"
    /\ IF player_thread[c] # 0
          THEN /\ player_call' = PlayerCall("stop", c)
               /\ player_thread' = player_stop(c)
          ELSE /\ player_call' = NoCall
               /\ UNCHANGED player_thread
    /\ pc' = [pc EXCEPT ![c] = "cleanup_slot"]
    /\ Only({"pc", "player_thread", "player_call"})

\* A cleanup that leaves the slot alone (the variant against which C10 is
\* tried).
CleanupSlotSkipped(c) ==
    /\ pc[c] = "cleanup_slot"
    /\ pc' = [pc EXCEPT ![c] = "cleanup_running"]
    /\ Only({"pc"})

\* ... the play lock: "if (playing_conn == conn) playing_conn = NULL"
CleanupSlot(c) ==
    /\ pc[c] = "cleanup_slot"
    /\ playing_conn' = ReleasedSlot(c)
    /\ pc' = [pc EXCEPT ![c] = "cleanup_running"]
    /\ Only({"pc", "playing_conn"})

\* ... conn->running = 0, and the thread ends.
CleanupRunning(c) ==
    /\ pc[c] = "cleanup_running"
    /\ running' = [running EXCEPT ![c] = 0]
    /\ pc' = [pc EXCEPT ![c] = "exited"]
    /\ Only({"pc", "running"})

\* ------------------------------------------------------------ the handlers
\* What every handler step leaves alone is given with Only; these are the
\* names a returning handler writes.
Returning == {"pc", "resp"}
Received == {"method", "nreq"}

\* No entry of method_handlers matches (PAUSE): the response stays 400.
HandleUnselected(c) ==
    /\ \E m \in Methods \ method_handlers : Receive(c, m)
    /\ Return(c, NewResponse)
    /\ Only(Received \cup Returning)

\* handle_options
HandleOptions(c) ==
    /\ Receive(c, "OPTIONS")
    /\ Return(c, AddHeader(SetCode(NewResponse, 200), "Public"))
    /\ Only(Received \cup Returning)

\* handle_get_parameter: no test of have_player
HandleGetParameter(c) ==
    /\ Receive(c, "GET_PARAMETER")
    /\ Return(c, SetCode(NewResponse, 200))
    /\ Only(Received \cup Returning)

\* handle_set_parameter: no test of have_player; a text/parameters body with
\* a "volume: " line goes to player_volume (handle_set_parameter_parameter).
SetParameterCall(c, ct) ==
    IF ct = "text/parameters:volume" THEN PlayerCall("volume", c) ELSE NoCall

HandleSetParameter(c, ct) ==
    /\ Receive(c, "SET_PARAMETER")
    /\ player_call' = SetParameterCall(c, ct)
    /\ Return(c, SetCode(NewResponse, 200))
    /\ Only(Received \cup Returning \cup {"player_call"})

\* handle_record, handle_flush, handle_teardown, handle_setup begin with
\* "if (have_player(conn))".
NeedsPlayer == {"RECORD", "FLUSH", "TEARDOWN", "SETUP"}

HavePlayer(c) ==
    /\ \E m \in NeedsPlayer : Receive(c, m)
    /\ hp' = [hp EXCEPT ![c] = have_player(c)]
    /\ pc' = [pc EXCEPT ![c] = "handler"]
    /\ resp' = [resp EXCEPT ![c] = NewResponse]
    /\ Only(Received \cup {"hp", "pc", "resp"})

\* handle_record: player_play unless the player runs already, and
\* player_flush for an RTP-Info header.
RecordCall(c, rtpinfo) ==
    IF rtpinfo THEN PlayerCall("flush", c)
    ELSE IF player_thread[c] = 0 THEN PlayerCall("play", c)
    ELSE NoCall

HandleRecord(c, rtpinfo) ==
    /\ pc[c] = "handler"
    /\ method[c] = "RECORD"
    /\ IF hp[c] = 1
          THEN /\ player_thread' = IF player_thread[c] # 0 THEN player_thread
                                                              ELSE player_play(c)
               /\ player_call' = RecordCall(c, rtpinfo)
               /\ Return(c, AddHeader(SetCode(resp[c], 200), "Audio-Latency: 11025"))
          ELSE /\ ~rtpinfo
               /\ UNCHANGED player_thread
               /\ player_call' = NoCall
               /\ Return(c, SetCode(resp[c], 451))
    /\ Only(Returning \cup {"player_thread", "player_call"})

\* handle_flush
HandleFlush(c) ==
    /\ pc[c] = "handler"
    /\ method[c] = "FLUSH"
    /\ IF hp[c] = 1
          THEN /\ player_call' = PlayerCall("flush", c)
               /\ Return(c, SetCode(resp[c], 200))
          ELSE /\ player_call' = NoCall
               /\ Return(c, SetCode(resp[c], 451))
    /\ Only(Returning \cup {"player_call"})

\* A handle_teardown that lets the slot go (the variant against which C9 is
\* tried).
HandleTeardownReleasing(c) ==
    /\ pc[c] = "handler"
    /\ method[c] = "TEARDOWN"
    /\ playing_conn' = ReleasedSlot(c)
    /\ player_call' = IF hp[c] = 1 THEN PlayerCall("stop", c) ELSE NoCall
    /\ player_thread' = IF hp[c] = 1 THEN player_stop(c) ELSE player_thread
    /\ Return(c, IF hp[c] = 1
                    THEN AddHeader(SetCode(resp[c], 200), "Connection: close")
                    ELSE SetCode(resp[c], 451))
    /\ Only(Returning \cup {"playing_conn", "player_thread", "player_call"})

\* handle_teardown
HandleTeardown(c) ==
    /\ pc[c] = "handler"
    /\ method[c] = "TEARDOWN"
    /\ IF hp[c] = 1
          THEN /\ player_call' = PlayerCall("stop", c)
               /\ player_thread' = player_stop(c)
               /\ Return(c, AddHeader(SetCode(resp[c], 200), "Connection: close"))
          ELSE /\ player_call' = NoCall
               /\ UNCHANGED player_thread
               /\ Return(c, SetCode(resp[c], 451))
    /\ Only(Returning \cup {"player_thread", "player_call"})

\* handle_setup, up to the test of the response code.  The response is 200
\* only with a Transport header that has control_port= and timing_port= and
\* a local audio port after the RTP setup; rtp_setup is called unless the
\* RTP side runs already.
SetupCallsRtp(c, transport) == transport = "full" /\ rtp_running[c] = 0

SetupResponse(c, transport, audio_port) ==
    IF transport = "full" /\ audio_port # 0
       THEN AddHeader(AddHeader(SetCode(resp[c], 200), "Transport"), "Session: 1")
       ELSE SetCode(resp[c], 451)

HandleSetup(c, transport, ok) ==
    /\ pc[c] = "handler"
    /\ method[c] = "SETUP"
    /\ IF hp[c] = 1
          THEN /\ IF SetupCallsRtp(c, transport)
                     THEN /\ rtp_running' = rtp_setup_running(c, ok)
                          /\ local_audio_port' = rtp_setup_audio_port(c, ok)
                     ELSE /\ ok
                          /\ UNCHANGED <<rtp_running, local_audio_port>>
               /\ LET r == SetupResponse(c, transport, local_audio_port'[c])
                  IN  IF r.respcode # 200
                         THEN /\ resp' = [resp EXCEPT ![c] = r]
                              /\ pc' = [pc EXCEPT ![c] = "setup_release"]
                         ELSE Return(c, r)
          ELSE /\ ok
               /\ transport = "full"
               /\ UNCHANGED <<rtp_running, local_audio_port>>
               /\ Return(c, SetCode(resp[c], 451))
    /\ Only(Returning \cup {"rtp"})

\* handle_setup, "SETUP error -- releasing the player lock"
SetupRelease(c) ==
    /\ pc[c] = "setup_release"
    /\ playing_conn' = ReleasedSlot(c)
    /\ Return(c, resp[c])
    /\ Only(Returning \cup {"playing_conn"})

\* A first region that claims the slot whoever holds it (the variant
\* against which C1 is tried), and one that interrupts a holder whatever
\* the configuration says (the variant against which C5 is tried).
AnnounceBranchClaims(c) == IF playing_conn = c THEN "duplicate" ELSE "claim"
AnnounceBranchInterrupts(c) ==
    IF playing_conn = NULL THEN "claim"
    ELSE IF playing_conn = c THEN "duplicate"
    ELSE IF stop[playing_conn] # 0 THEN "wait"
    ELSE "interrupt"

\* ... and one that never interrupts a holder (the variant against which C4
\* is tried).
AnnounceBranchNeverInterrupts(c) ==
    IF playing_conn = NULL THEN "claim"
    ELSE IF playing_conn = c THEN "duplicate"
    ELSE "wait"

\* handle_announce, the first region under playing_conn_lock.
AnnounceBranch(c) ==
    IF playing_conn = NULL THEN "claim"
    ELSE IF playing_conn = c THEN "duplicate"
    ELSE IF stop[playing_conn] # 0 THEN "wait"
    ELSE IF allow_session_interruption = 1 THEN "interrupt"
    ELSE "busy"

AnnounceLock(c) ==
    /\ Receive(c, "ANNOUNCE")
    /\ LET b == AnnounceBranch(c)
           holder == playing_conn
       IN  /\ playing_conn' = IF b = "claim" THEN c ELSE playing_conn
           /\ stop' = IF b = "interrupt" THEN [stop EXCEPT ![holder] = 1] ELSE stop
           /\ cancel' = IF b = "interrupt" THEN [cancel EXCEPT ![holder] = TRUE]
                                           ELSE cancel
           /\ have_the_player' =
                 [have_the_player EXCEPT ![c] = IF b \in {"claim", "duplicate"} THEN 1 ELSE 0]
           /\ should_wait' =
                 [should_wait EXCEPT ![c] = IF b \in {"wait", "interrupt"} THEN 1 ELSE 0]
           /\ interrupting_current_session' =
                 [interrupting_current_session EXCEPT ![c] = IF b = "interrupt" THEN 1 ELSE 0]
           /\ time_remaining' =
                 [time_remaining EXCEPT ![c] = IF b \in {"wait", "interrupt"} THEN WaitBudget
                                                                           ELSE 0]
           /\ IF b \in {"claim", "duplicate"}
                 THEN /\ pc' = [pc EXCEPT ![c] = "announce_parse"]
                      /\ resp' = [resp EXCEPT ![c] = NewResponse]
              ELSE IF b \in {"wait", "interrupt"}
                 THEN /\ pc' = [pc EXCEPT ![c] = "announce_wait"]
                      /\ resp' = [resp EXCEPT ![c] = NewResponse]
              ELSE Return(c, SetCode(NewResponse, 453))
    /\ Only(Received \cup Returning \cup {"playing_conn", "stop", "cancel", "announce"})

\* handle_announce, one turn of "while ((time_remaining > 0) &&
\* (have_the_player == 0))": claim the slot if it is empty, otherwise sleep
\* and count the time down; when the time is used up the response is 453.
\* time_remaining is a local of the block of the loop: it is gone when the
\* loop is left.
PollClaimsAlways(c) == TRUE    \* the variant against which C6 is tried
PollClaims(c) == playing_conn = NULL

AnnouncePoll(c) ==
    /\ pc[c] = "announce_wait"
    /\ time_remaining[c] > 0
    /\ have_the_player[c] = 0
    /\ IF PollClaims(c)
          THEN /\ playing_conn' = c
               /\ have_the_player' = [have_the_player EXCEPT ![c] = 1]
               /\ time_remaining' = [time_remaining EXCEPT ![c] = 0]
               /\ pc' = [pc EXCEPT ![c] = "announce_parse"]
               /\ UNCHANGED resp
          ELSE /\ UNCHANGED <<playing_conn, have_the_player>>
               /\ IF time_remaining[c] - PollInterval > 0
                     THEN /\ time_remaining' =
                                [time_remaining EXCEPT ![c] = @ - PollInterval]
                          /\ UNCHANGED <<resp, pc>>
                     ELSE /\ time_remaining' = [time_remaining EXCEPT ![c] = 0]
                          /\ Return(c, SetCode(resp[c], 453))
    /\ UNCHANGED <<should_wait, interrupting_current_session>>
    /\ Only(Returning \cup {"playing_conn", "announce"})

\* handle_announce with the player: the SDP body decides the response.  An
\* encrypted stream needs a 16-byte IV and a 16-byte key; the stream type is
\* ALAC with an fmtp line, PCM with the rtpmap line, and unknown otherwise.
StreamType(sdp) ==
    IF sdp.fmtp THEN "ast_apple_lossless"
    ELSE IF sdp.rtpmap THEN "ast_uncompressed"
    ELSE "ast_unknown"

AnnounceCode(sdp) ==
    IF sdp.aes /\ sdp.ivlen # 16 THEN 456
    ELSE IF sdp.aes /\ sdp.keylen # 16 THEN 456
    ELSE IF StreamType(sdp) = "ast_unknown" THEN 456
    ELSE 200

\* An "out:" that never releases (the variant against which C7 is tried).
AnnounceReleasesNever(code) == FALSE

\* "out:" releases the slot for a response that is neither 200 nor 453.
AnnounceReleases(code) == code # 200 /\ code # 453

AnnounceParse(c, sdp) ==
    /\ pc[c] = "announce_parse"
    /\ LET r == SetCode(resp[c], AnnounceCode(sdp))
       IN  IF AnnounceReleases(r.respcode)
              THEN /\ resp' = [resp EXCEPT ![c] = r]
                   /\ pc' = [pc EXCEPT ![c] = "announce_release"]
              ELSE Return(c, r)
    /\ Only(Returning)

\* handle_announce, "Error in handling ANNOUNCE. Unlocking the play lock."
AnnounceRelease(c) ==
    /\ pc[c] = "announce_release"
    /\ playing_conn' = ReleasedSlot(c)
    /\ Return(c, resp[c])
    /\ Only(Returning \cup {"playing_conn"})

\* ------------------------------------------------------- the specification
Next ==
    \/ \E c \in Conns : Accept(c)
    \/ \E c \in Conns : Track(c)
    \/ \E c \in Conns : StopperCancel(c)
    \/ \E c \in Conns : StopperJoin(c)
    \/ \E c \in Conns : WatchdogBark(c)
    \/ \E c \in Conns : ReadFail(c)
    \/ \E c \in Conns : LoopExit(c)
    \/ \E c \in Conns : Cancelled(c)
    \/ \E c \in Conns, err \in BOOLEAN : Respond(c, err)
    \/ \E c \in Conns : CleanupPlayer(c)
    \/ \E c \in Conns : CleanupSlot(c)
    \/ \E c \in Conns : CleanupRunning(c)
    \/ \E c \in Conns : HandleUnselected(c)
    \/ \E c \in Conns : HandleOptions(c)
    \/ \E c \in Conns : HandleGetParameter(c)
    \/ \E c \in Conns, ct \in ContentTypes : HandleSetParameter(c, ct)
    \/ \E c \in Conns : HavePlayer(c)
    \/ \E c \in Conns, rtpinfo \in BOOLEAN : HandleRecord(c, rtpinfo)
    \/ \E c \in Conns : HandleFlush(c)
    \/ \E c \in Conns : HandleTeardown(c)
    \/ \E c \in Conns, t \in Transports, ok \in BOOLEAN : HandleSetup(c, t, ok)
    \/ \E c \in Conns : SetupRelease(c)
    \/ \E c \in Conns : AnnounceLock(c)
    \/ \E c \in Conns : AnnouncePoll(c)
    \/ \E c \in Conns, sdp \in SDPs : AnnounceParse(c, sdp)
    \/ \E c \in Conns : AnnounceRelease(c)


\* The hand-over of the session slot on its own: connections that send
\* ANNOUNCE requests only, and no event from outside.  The steps that a
\* worker takes by itself (everything but the arrival of a request) are
\* scheduled fairly: a thread that can run is run.
WorkerStep(c) ==
    \/ LoopExit(c)
    \/ Cancelled(c)
    \/ Respond(c, FALSE)
    \/ CleanupPlayer(c)
    \/ CleanupSlot(c)
    \/ CleanupRunning(c)
    \/ AnnouncePoll(c)
    \/ \E sdp \in SDPs : AnnounceParse(c, sdp)
    \/ AnnounceRelease(c)

NextAnnounce ==
    \/ \E c \in Conns : Accept(c)
    \/ \E c \in Conns : Track(c)
    \/ \E c \in Conns : AnnounceLock(c)
    \/ \E c \in Conns : WorkerStep(c)


\* =========================================================================
\* The reference-counted messages, the sink queues and the metadata fan-out
\* =========================================================================
\* A request handler is a thread that owns the request message of the
\* iteration it is in (msg_init in msg_handle_line, msg_free at the end of
\* the iteration) and publishes metadata with it.  Each sink has a queue and
\* a consumer thread.  A step is a region under one lock (the
\* reference_counter_lock, a pc_queue_lock) or a piece of code that touches
\* nothing shared.

Producers == 1..NProducers
Sinks == 1..NSinks
Msgs == 1..NMsgs
Slots == 0..(Capacity - 1)

\* The thread that holds a pc_queue_lock: a producer, or the consumer of a
\* sink.
Consumer(q) == NProducers + q
Unlocked == 0

\* metadata_package: the carrier (a message or NULL) and what data points to
\* (NULL, bytes inside the carrier, or a copy made by memdup); id names the
\* send_metadata call the package was built by, and nth says that it was
\* the nth package added to its queue.
NoPackage == [id |-> <<0, 0>>, carrier |-> NULL, data |-> "null", nth |-> 0]
Package(m, s, kind, n) ==
    [id |-> <<m, s>>,
     carrier |-> IF kind = "carrier" THEN m ELSE NULL,
     data |-> kind,
     nth |-> n]
Kinds == {"carrier", "copy", "null"}

\* the locals of a send_metadata_to_queue call that is not running
NoCallQ == [kind |-> "null", block |-> 0, queue |-> 0, rc |-> 0, net |-> 0]

\* msg_init: referenceCount = 1
msg_init(m) == [referenceCount EXCEPT ![m] = 1]

\* referenceCount and count are uint32_t.  A value from 2^31 on is written
\* as the negative number with the same 32 bits: 0 - 1 is 0xFFFFFFFF,
\* written -1.  The counters of the model stay far below 2^31 going up.

\* msg_retain: referenceCount++
msg_retain(m) == [referenceCount EXCEPT ![m] = @ + 1]

\* msg_free: referenceCount--, and free(msg) when it has become zero
msg_free_count(m) == [referenceCount EXCEPT ![m] = @ - 1]
msg_free_freed(m) ==
    IF referenceCount[m] - 1 = 0
       THEN [freed EXCEPT ![m] = @ + 1]
       ELSE freed

\* An index that is folded one slot early (the variant against which C15 is
\* tried).
FoldEarly(i) == IF i + 1 >= Capacity - 1 THEN 0 ELSE i + 1

\* "i++; if (i == the_queue->capacity) i = 0;"
Fold(i) == IF i + 1 = Capacity THEN 0 ELSE i + 1

\* what the steps of this part leave alone
QOnly(S) ==
    /\ UNCHANGED cvars
    /\ UNCHANGED avars
    /\ UNCHANGED xvars
    /\ IF "msg" \in S THEN TRUE
          ELSE UNCHANGED <<referenceCount, freed, retains, releases>>
    /\ IF "msg_indexes" \in S THEN TRUE ELSE UNCHANGED msg_indexes
    /\ IF "copies" \in S THEN TRUE ELSE UNCHANGED copies
    /\ IF "ring" \in S THEN TRUE ELSE UNCHANGED <<count, toq, eoq, items, added>>
    /\ IF "taken" \in S THEN TRUE ELSE UNCHANGED taken
    /\ IF "lock" \in S THEN TRUE ELSE UNCHANGED pc_queue_lock
    /\ IF "producer" \in S THEN TRUE ELSE UNCHANGED <<ppc, preq, psends, call>>
    /\ IF "consumer" \in S THEN TRUE ELSE UNCHANGED <<cpc, pack>>
    /\ IF "stopping" \in S THEN TRUE ELSE UNCHANGED <<ccancel, deleted>>

\* The message is retained (a release undoes it) for the call of producer p.
Retained(p, m) ==
    /\ referenceCount' = msg_retain(m)
    /\ retains' = [retains EXCEPT ![m] = @ + 1]
    /\ UNCHANGED <<freed, releases>>

\* msg_free(&msg) by a holder of a reference
Released(m) ==
    /\ referenceCount' = msg_free_count(m)
    /\ freed' = msg_free_freed(m)
    /\ releases' = [releases EXCEPT ![m] = @ + 1]
    /\ UNCHANGED retains

\* ----------------------------------------------------- the request handler
\* rtsp_read_request has built the request message: msg_init gives it the
\* next index and one reference, the handler's.
StartRequest(p) ==
    /\ ppc[p] = "idle"
    /\ msg_indexes <= NMsgs
    /\ referenceCount' = msg_init(msg_indexes)
    /\ msg_indexes' = msg_indexes + 1
    /\ preq' = [preq EXCEPT ![p] = msg_indexes]
    /\ psends' = [psends EXCEPT ![p] = 0]
    /\ ppc' = [ppc EXCEPT ![p] = "handler"]
    /\ UNCHANGED <<freed, retains, releases, call>>
    /\ QOnly({"msg", "msg_indexes", "producer"})

\* send_metadata(type, code, data, length, carrier, block): the handler
\* publishes with its request as carrier, or without carrier and with data
\* or without; the package goes to each sink in turn.
send_metadata(p, kind, block) ==
    /\ ppc[p] = "handler"
    /\ psends[p] < MaxSends
    /\ psends' = [psends EXCEPT ![p] = @ + 1]
    /\ call' = [call EXCEPT ![p] = [kind |-> kind, block |-> block,
                                    queue |-> 1, rc |-> 0, net |-> 0]]
    /\ ppc' = [ppc EXCEPT ![p] = "to_queue"]
    /\ UNCHANGED preq
    /\ QOnly({"producer"})

\* send_metadata_to_queue, to the call of pc_queue_add_item: the carrier is
\* retained, or the data copied.
send_metadata_to_queue(p) ==
    /\ ppc[p] = "to_queue"
    /\ LET m == preq[p]
           q == call[p].queue
       IN  /\ IF call[p].kind = "carrier"
                 THEN /\ Retained(p, m)
                      /\ call' = [call EXCEPT ![p].net = 1, ![p].rc = 0]
                      /\ UNCHANGED copies
                 ELSE /\ copies' = IF call[p].kind = "copy"
                                      THEN copies \cup {<<m, psends[p], q>>}
                                      ELSE copies
                      /\ call' = [call EXCEPT ![p].net = 0, ![p].rc = 0]
                      /\ UNCHANGED <<referenceCount, freed, retains, releases>>
    /\ ppc' = [ppc EXCEPT ![p] = "add"]
    /\ UNCHANGED <<preq, psends>>
    /\ QOnly({"msg", "copies", "producer"})

\* ------------------------------------------------------- pc_queue_add_item
\* What the producer sees of debug_mutex_lock(&lock, 10000, 2), the lock of
\* a call with block == 0: the lock is taken (0), or it could not be had in
\* the time allowed (EBUSY).
debug_mutex_lock(holder) == IF holder = Unlocked THEN 0 ELSE EBUSY

\* pc_queue_add_item, the taking of the lock.  With block != 0 the producer
\* waits for the lock.  The mutex of a deleted queue has been destroyed:
\* locking it either works as before or fails, and the code goes on without
\* the lock ("Error locking for pc_queue_add_item").
AddLock(p) ==
    /\ ppc[p] = "add"
    /\ LET q == call[p].queue
       IN  \/ /\ pc_queue_lock[q] = Unlocked
              /\ pc_queue_lock' = [pc_queue_lock EXCEPT ![q] = p]
              /\ ppc' = [ppc EXCEPT ![p] = "adding"]
              /\ UNCHANGED call
           \/ /\ pc_queue_lock[q] # Unlocked
              /\ call[p].block = 0
              /\ call' = [call EXCEPT ![p].rc =
                                        debug_mutex_lock(pc_queue_lock[q])]
              /\ ppc' = [ppc EXCEPT ![p] = "added"]
              /\ UNCHANGED pc_queue_lock
           \/ /\ deleted[q]
              /\ pc_queue_lock[q] # Unlocked
              /\ ppc' = [ppc EXCEPT ![p] = "adding"]
              /\ UNCHANGED <<call, pc_queue_lock>>
    /\ UNCHANGED <<preq, psends>>
    /\ QOnly({"lock", "producer"})

\* A test for room that lets one item too many in (the variant against
\* which C13 is tried).
HasRoomOffByOne(q) == count[q] <= Capacity

\* "if (the_queue->count < the_queue->capacity)"
HasRoom(q) == count[q] < Capacity

\* A full queue makes the producer wait for an item to be removed (the loop
\* that pc_queue_add_item has in a comment; the variant against which C14
\* is tried).
AddItemWaiting(p) ==
    /\ ppc[p] = "adding"
    /\ HasRoom(call[p].queue)
    /\ LET q == call[p].queue
           pkg == Package(preq[p], psends[p], call[p].kind, added[q] + 1)
       IN  /\ items' = [items EXCEPT ![q][eoq[q]] = pkg]
           /\ eoq' = [eoq EXCEPT ![q] = Fold(@)]
           /\ count' = [count EXCEPT ![q] = @ + 1]
           /\ added' = [added EXCEPT ![q] = @ + 1]
           /\ call' = [call EXCEPT ![p].rc = 0]
           /\ pc_queue_lock' = [pc_queue_lock EXCEPT ![q] =
                                    IF @ = p THEN Unlocked ELSE @]
    /\ ppc' = [ppc EXCEPT ![p] = "added"]
    /\ UNCHANGED <<toq, preq, psends>>
    /\ QOnly({"ring", "lock", "producer"})

\* pc_queue_add_item under the lock: with room the package is copied to the
\* slot at eoq, eoq is moved on and folded, count goes up; without room the
\* result is EWOULDBLOCK.  pthread_cleanup_pop(1) unlocks.
AddItem(p) ==
    /\ ppc[p] = "adding"
    /\ LET q == call[p].queue
           pkg == Package(preq[p], psends[p], call[p].kind, added[q] + 1)
       IN  /\ IF HasRoom(q)
                 THEN /\ items' = [items EXCEPT ![q][eoq[q]] = pkg]
                      /\ eoq' = [eoq EXCEPT ![q] = Fold(@)]
                      /\ count' = [count EXCEPT ![q] = @ + 1]
                      /\ added' = [added EXCEPT ![q] = @ + 1]
                      /\ call' = [call EXCEPT ![p].rc = 0]
                 ELSE /\ call' = [call EXCEPT ![p].rc = EWOULDBLOCK]
                      /\ UNCHANGED <<items, eoq, count, added>>
           /\ pc_queue_lock' = [pc_queue_lock EXCEPT ![q] =
                                    IF @ = p THEN Unlocked ELSE @]
    /\ ppc' = [ppc EXCEPT ![p] = "added"]
    /\ UNCHANGED <<toq, preq, psends>>
    /\ QOnly({"ring", "lock", "producer"})

\* A failed enqueue that keeps what it took (the variant against which C11
\* and C12 are tried).
DroppedKept(p) ==
    /\ UNCHANGED <<referenceCount, freed, retains, releases>>
    /\ UNCHANGED copies

\* send_metadata_to_queue, "if (rc != 0)": the carrier is released, or the
\* copy freed.
Dropped(p) ==
    IF call[p].kind = "carrier"
       THEN /\ Released(preq[p])
            /\ UNCHANGED copies
       ELSE /\ copies' = copies \ {<<preq[p], psends[p], call[p].queue>>}
            /\ UNCHANGED <<referenceCount, freed, retains, releases>>

\* send_metadata_to_queue after pc_queue_add_item, and send_metadata going
\* on to the next sink (the result of the call is dropped) or returning to
\* the handler.
AfterAdd(p) ==
    /\ ppc[p] = "added"
    /\ IF call[p].rc # 0
          THEN Dropped(p)
          ELSE /\ UNCHANGED <<referenceCount, freed, retains, releases>>
               /\ UNCHANGED copies
    /\ IF call[p].queue < NSinks
          THEN /\ call' = [call EXCEPT ![p].queue = @ + 1, ![p].rc = 0]
               /\ ppc' = [ppc EXCEPT ![p] = "to_queue"]
          ELSE /\ call' = [call EXCEPT ![p] = NoCallQ]
               /\ ppc' = [ppc EXCEPT ![p] = "handler"]
    /\ UNCHANGED <<preq, psends>>
    /\ QOnly({"msg", "copies", "producer"})

\* The end of the iteration of the worker: msg_free(&req).
EndRequest(p) ==
    /\ ppc[p] = "handler"
    /\ Released(preq[p])
    /\ preq' = [preq EXCEPT ![p] = NULL]
    /\ psends' = [psends EXCEPT ![p] = 0]
    /\ ppc' = [ppc EXCEPT ![p] = "idle"]
    /\ UNCHANGED call
    /\ QOnly({"msg", "producer"})

\* ------------------------------------------------------- pc_queue_get_item
\* pc_queue_get_item, from the lock to pthread_cond_wait or to the unlock:
\* "while (the_queue->count == 0) pthread_cond_wait(...)": on an empty queue
\* the consumer waits, the lock released; else it copies the item at toq
\* out, moves toq on and folds it, count goes down, and
\* pthread_cleanup_pop(1) unlocks.
TakeItem(q) ==
    /\ pc_queue_lock[q] = Unlocked
    /\ IF count[q] = 0
          THEN /\ cpc' = [cpc EXCEPT ![q] = "waiting"]
               /\ UNCHANGED <<pack, count, toq, taken>>
          ELSE /\ pack' = [pack EXCEPT ![q] = items[q][toq[q]]]
               /\ toq' = [toq EXCEPT ![q] = Fold(@)]
               /\ count' = [count EXCEPT ![q] = @ - 1]
               /\ taken' = [taken EXCEPT ![q] = @ + 1]
               /\ cpc' = [cpc EXCEPT ![q] = "process"]
    /\ UNCHANGED <<eoq, items, added>>
    /\ QOnly({"ring", "taken", "consumer"})

\* the consumer calls pc_queue_get_item
GetItem(q) ==
    /\ cpc[q] = "get"
    /\ TakeItem(q)

\* pthread_cond_wait returns with an item in the queue: the lock is taken
\* again and the loop ends.  (A return with the queue still empty leaves
\* the consumer waiting.)
Wake(q) ==
    /\ cpc[q] = "waiting"
    /\ count[q] # 0
    /\ TakeItem(q)

\* A consumer that frees nothing (the variant against which C11 is tried).
metadata_pack_leak(q) ==
    /\ UNCHANGED <<referenceCount, freed, retains, releases>>
    /\ UNCHANGED copies

\* metadata_pack_cleanup_function: the carrier is released, or the copy
\* freed.
metadata_pack_cleanup_function(q) ==
    IF pack[q].carrier # NULL
       THEN /\ Released(pack[q].carrier)
            /\ UNCHANGED copies
       ELSE /\ copies' = copies \ {<<pack[q].id[1], pack[q].id[2], q>>}
            /\ UNCHANGED <<referenceCount, freed, retains, releases>>

\* metadata_thread_function, the rest of an iteration: the package is
\* processed and pthread_cleanup_pop(1) runs the package cleanup.
Process(q) ==
    /\ cpc[q] = "process"
    /\ metadata_pack_cleanup_function(q)
    /\ pack' = [pack EXCEPT ![q] = NoPackage]
    /\ cpc' = [cpc EXCEPT ![q] = "get"]
    /\ QOnly({"msg", "copies", "consumer"})

QueueNext ==
    \/ \E p \in Producers : StartRequest(p)
    \/ \E p \in Producers, kind \in Kinds, block \in {0, 1} :
          send_metadata(p, kind, block)
    \/ \E p \in Producers : send_metadata_to_queue(p)
    \/ \E p \in Producers : AddLock(p)
    \/ \E p \in Producers : AddItem(p)
    \/ \E p \in Producers : AfterAdd(p)
    \/ \E p \in Producers : EndRequest(p)
    \/ \E q \in Sinks : GetItem(q)
    \/ \E q \in Sinks : Wake(q)
    \/ \E q \in Sinks : Process(q)

\* ------------------------------------------------------------ metadata_stop
\* metadata_stop: pthread_cancel of the consumer of a sink (and the join,
\* which waits for it).
metadata_stop(q) ==
    /\ ~ccancel[q]
    /\ ccancel' = [ccancel EXCEPT ![q] = TRUE]
    /\ UNCHANGED deleted
    /\ QOnly({"stopping"})

\* The cancellation is acted on in pthread_cond_wait: the mutex is taken
\* again before the cleanup handlers run.
CancelInWait(q) ==
    /\ cpc[q] = "waiting"
    /\ ccancel[q]
    /\ pc_queue_lock[q] = Unlocked
    /\ pc_queue_lock' = [pc_queue_lock EXCEPT ![q] = Consumer(q)]
    /\ cpc' = [cpc EXCEPT ![q] = "cancel_wait"]
    /\ UNCHANGED pack
    /\ QOnly({"lock", "consumer"})

\* A cleanup handler that leaves the lock as it is (the variant against
\* which C16 is tried).
KeptLock(q) == pc_queue_lock

\* pc_queue_cleanup_handler: pthread_mutex_unlock(&the_queue->pc_queue_lock)
UnlockedQueue(q) == [pc_queue_lock EXCEPT ![q] = Unlocked]

pc_queue_cleanup_handler(q) ==
    /\ cpc[q] = "cancel_wait"
    /\ pc_queue_lock' = UnlockedQueue(q)
    /\ cpc' = [cpc EXCEPT ![q] = "cancel_thread"]
    /\ UNCHANGED pack
    /\ QOnly({"lock", "consumer"})

\* The cancellation is acted on while the package is processed (the write
\* to the sink): the package cleanup runs.
CancelInProcess(q) ==
    /\ cpc[q] = "process"
    /\ ccancel[q]
    /\ metadata_pack_cleanup_function(q)
    /\ pack' = [pack EXCEPT ![q] = NoPackage]
    /\ cpc' = [cpc EXCEPT ![q] = "cancel_thread"]
    /\ QOnly({"msg", "copies", "consumer"})

\* metadata_thread_cleanup_function: pc_queue_delete destroys the condition
\* variables and the mutex of the queue; count, toq, eoq and the items are
\* not touched.  The thread has ended.
metadata_thread_cleanup_function(q) ==
    /\ cpc[q] = "cancel_thread"
    /\ deleted' = [deleted EXCEPT ![q] = TRUE]
    /\ cpc' = [cpc EXCEPT ![q] = "cancelled"]
    /\ UNCHANGED <<pack, ccancel>>
    /\ QOnly({"consumer", "stopping"})

StopNext ==
    \/ QueueNext
    \/ \E q \in Sinks : metadata_stop(q)
    \/ \E q \in Sinks : CancelInWait(q)
    \/ \E q \in Sinks : pc_queue_cleanup_handler(q)
    \/ \E q \in Sinks : CancelInProcess(q)
    \/ \E q \in Sinks : metadata_thread_cleanup_function(q)

\* =========================================================================
\* The worker's loop with a password: rtsp_auth and the response headers
\* =========================================================================
\* One step reads a request, builds the response (400, the CSeq of the
\* request, Server), runs the authorization and, if it passes, the method
\* handler; the next step writes the response and frees both messages.  A
\* request that cannot be parsed is answered with the fixed 400 text.

AuthConns == 1..NAuthConns
Nonces == {"n1", "n2"}
NoNonce == ""
CSeqs == {"", "7"}                   \* "": the request has no CSeq header
Passwords == {"pw", "other"}         \* config.password is "pw"
AuthMethods == {"ANNOUNCE", "RECORD", "PAUSE"}
DigestMethods == {"ANNOUNCE", "RECORD"}  \* the method a digest was made for

\* MD5(hex(MD5(username:realm:password)):nonce:hex(MD5(method:uri))), for
\* the username, realm and uri of the header: the digest is a function of
\* what went into it, and different inputs give different digests.
Digest(pw, m, nonce) == <<pw, m, nonce>>
NoDigest == <<"", "", "">>

\* The Authorization header of a request: none, one that does not start
\* with "Digest ", a Digest one that lacks realm, username, response or uri,
\* or a complete Digest one with its response.
AuthHeaders ==
    [kind : {"none", "basic", "incomplete"}, response : {NoDigest}]
    \cup [kind : {"digest"},
          response : {Digest(pw, m, n) :
                         pw \in Passwords, m \in DigestMethods, n \in Nonces}]

Requests == [method : AuthMethods, cseq : CSeqs, auth : AuthHeaders]
NoRequest == [method |-> "none", cseq |-> "",
              auth |-> [kind |-> "none", response |-> NoDigest]]

NoResp == [respcode |-> 0, headers |-> {}]

\* msg_add_header(msg, name, value)
msg_add_header(r, name, value) == [r EXCEPT !.headers = @ \cup {<<name, value>>}]

\* resp = msg_init(); resp->respcode = 400; the CSeq header of the request,
\* if it has one, and the Server header
InitialResponse(req) ==
    LET r == [respcode |-> 400, headers |-> {}]
        s == IF req.cseq # "" THEN msg_add_header(r, "CSeq", req.cseq) ELSE r
    IN  msg_add_header(s, "Server", "AirTunes/105.1")

\* "RTSP/1.0 400 Bad Request\r\nServer: AirTunes/105.1\r\n\r\n"
BadRequestText == [respcode |-> 400, headers |-> {<<"Server", "AirTunes/105.1">>}]

\* An authorization that takes any complete Digest header (the variant
\* against which C18 is tried).
rtsp_auth_any_digest(configured, nonce, req) ==
    IF ~configured THEN 0
    ELSE IF nonce = NoNonce THEN 1
    ELSE IF req.auth.kind # "digest" THEN 1
    ELSE 0

\* rtsp_auth, its result: 0 without a password; 1 on the first call, which
\* makes the nonce; 1 without a complete Digest header; else 0 if the
\* response equals the digest computed with the nonce, and 1 if not.
rtsp_auth(configured, nonce, req) ==
    IF ~configured THEN 0
    ELSE IF nonce = NoNonce THEN 1
    ELSE IF req.auth.kind # "digest" THEN 1
    ELSE IF req.auth.response = Digest("pw", req.method, nonce) THEN 0
    ELSE 1

\* rtsp_auth, "authenticate:": 401 and the WWW-Authenticate header with the
\* nonce
Authenticate(r, nonce) ==
    msg_add_header([r EXCEPT !.respcode = 401], "WWW-Authenticate", nonce)

\* A test that asks for the digest of every request (the variant against
\* which C17 is tried).
PassesAlwaysChecked(c, rc) == rc = 0

\* "(conn->authorized == 1) || (rtsp_auth(&conn->auth_nonce, req, resp)) == 0"
Passes(c, rc) == authorized[c] = 1 \/ rc = 0

\* The status a method handler leaves: handle_announce 200, 453 or 456; handle_record 200 or 451; no handler for PAUSE, the
\* response stays as it is.
HandlerCodes(m) ==
    CASE m = "ANNOUNCE" -> {200, 453, 456}
      [] m = "RECORD" -> {200, 451}
      [] OTHER -> {400}

AOnly(S) ==
    /\ UNCHANGED cvars
    /\ UNCHANGED qvars
    /\ UNCHANGED xvars
    /\ UNCHANGED password
    /\ IF "authorized" \in S THEN TRUE ELSE UNCHANGED authorized
    /\ IF "auth_nonce" \in S THEN TRUE ELSE UNCHANGED auth_nonce
    /\ IF "request" \in S THEN TRUE ELSE UNCHANGED <<areq, aresp, dispatched, nareq>>
    /\ IF "apc" \in S THEN TRUE ELSE UNCHANGED apc

\* rtsp_read_request returns a request; the response is set up, the
\* authorization runs and, if it passes, the handler of the method.
AuthHandle(c, req) ==
    /\ apc[c] = "read"
    /\ nareq < MaxAuthReqs
    /\ nareq' = nareq + 1
    /\ areq' = [areq EXCEPT ![c] = req]
    /\ LET checked == authorized[c] # 1
           fresh == checked /\ password /\ auth_nonce[c] = NoNonce
           rc == rtsp_auth(password, auth_nonce[c], req)
           r == InitialResponse(req)
       IN  \E nonce \in IF fresh THEN Nonces ELSE {auth_nonce[c]} :
               /\ auth_nonce' = [auth_nonce EXCEPT ![c] = nonce]
               /\ IF Passes(c, rc)
                     THEN /\ authorized' = [authorized EXCEPT ![c] = 1]
                          /\ \E code \in HandlerCodes(req.method) :
                                 aresp' = [aresp EXCEPT
                                              ![c] = [r EXCEPT !.respcode = code]]
                          /\ dispatched' = [dispatched EXCEPT ![c] = TRUE]
                     ELSE /\ UNCHANGED authorized
                          /\ aresp' = [aresp EXCEPT ![c] = Authenticate(r, nonce)]
                          /\ dispatched' = [dispatched EXCEPT ![c] = FALSE]
    /\ apc' = [apc EXCEPT ![c] = "write"]
    /\ AOnly({"authorized", "auth_nonce", "request", "apc"})

\* rtsp_read_request returns bad_packet for a request whose lines cannot be
\* parsed (it may have had a CSeq line before the line that fails): no
\* message is left, the fixed text is what will be written.
AuthBadPacket(c, cseq) ==
    /\ apc[c] = "read"
    /\ nareq < MaxAuthReqs
    /\ nareq' = nareq + 1
    /\ areq' = [areq EXCEPT ![c] = [NoRequest EXCEPT !.cseq = cseq]]
    /\ aresp' = [aresp EXCEPT ![c] = BadRequestText]
    /\ dispatched' = [dispatched EXCEPT ![c] = FALSE]
    /\ apc' = [apc EXCEPT ![c] = "write"]
    /\ AOnly({"request", "apc"})

\* msg_write_response, or the write of the fixed text: the status line and
\* every header of the response go to the socket; the messages are freed.
AuthWrite(c) ==
    /\ apc[c] = "write"
    /\ areq' = [areq EXCEPT ![c] = NoRequest]
    /\ aresp' = [aresp EXCEPT ![c] = NoResp]
    /\ dispatched' = [dispatched EXCEPT ![c] = FALSE]
    /\ apc' = [apc EXCEPT ![c] = "read"]
    /\ UNCHANGED nareq
    /\ AOnly({"request", "apc"})

AuthNext ==
    \/ \E c \in AuthConns, req \in Requests : AuthHandle(c, req)
    \/ \E c \in AuthConns, cseq \in CSeqs : AuthBadPacket(c, cseq)
    \/ \E c \in AuthConns : AuthWrite(c)

\* =========================================================================
\* rtsp_read_request
\* =========================================================================
\* The bytes of a connection.  A request on the wire is its request line,
\* its header lines, an empty line and its body; a line ends with a
\* terminator (\r, \n or \r\n).  A byte of the model is a piece of that
\* text, and it says for which request the sender wrote it: the text of a
\* line, the terminator of a line, a byte of a body.
Byte(i, kind, n) == [req |-> i, kind |-> kind, n |-> n]

\* What the sender writes for its request i: with n > 0 a Content-Length
\* header of n and n bytes of body, with n = 0 no Content-Length header and
\* no body, with n < 0 a header line without ": ".
RequestBytes(i, n) ==
    <<Byte(i, "request", 0), Byte(i, "nl", 0)>>
    \o (IF n > 0 THEN <<Byte(i, "Content-Length", n), Byte(i, "nl", 0)>>
        ELSE IF n < 0 THEN <<Byte(i, "bad", 0), Byte(i, "nl", 0)>>
        ELSE << >>)
    \o <<Byte(i, "nl", 0)>>
    \o [j \in 1..(IF n > 0 THEN n ELSE 0) |-> Byte(i, "body", 0)]

RECURSIVE ScriptOf(_, _)
ScriptOf(ns, i) ==
    IF i > Len(ns) THEN << >> ELSE RequestBytes(i, ns[i]) \o ScriptOf(ns, i + 1)

\* What a sender may write in the life of a connection.
Scripts ==
    {ScriptOf(ns, 1) : ns \in UNION {[1..k -> -1..MaxBody] : k \in 0..MaxRequests}}

\* No message, and the message msg_init() makes for the request line of
\* request i.
NoPacket == [req |-> 0, cl |-> 0, contentlength |-> 0, content |-> << >>]
NewPacket(i) == [req |-> i, cl |-> 0, contentlength |-> 0, content |-> << >>]

\* nextline(in, inbuf): the place of the first line terminator of the
\* buffer, 0 (NULL) if it holds none.  The line is what is before that
\* place, the next line begins after it.
nextline(b) ==
    IF \E j \in 1..Len(b) : b[j].kind = "nl"
       THEN CHOOSE j \in 1..Len(b) :
               b[j].kind = "nl" /\ \A k \in 1..(j - 1) : b[k].kind # "nl"
       ELSE 0

\* msg_handle_line(pmsg, line): the message after the line and the value
\* returned.  The first line makes the message if it reads "METHOD URI
\* RTSP/1.0"; a later line is a header "Name: value"; the empty line ends
\* the headers and returns atoi of the Content-Length header, 0 without
\* one.  A line that is neither frees the message and returns 0.
msg_handle_line(packet, line) ==
    IF packet = NoPacket
       THEN IF Len(line) = 1 /\ line[1].kind = "request"
               THEN [packet |-> NewPacket(line[1].req), msg_size |-> -1]
               ELSE [packet |-> NoPacket, msg_size |-> 0]
    ELSE IF Len(line) # 0
       THEN IF Len(line) = 1 /\ line[1].kind = "Content-Length"
               THEN [packet |-> [packet EXCEPT !.cl = line[1].n], msg_size |-> -1]
               ELSE [packet |-> NoPacket, msg_size |-> 0]
    ELSE [packet |-> packet, msg_size |-> packet.cl]

\* "while (msg_size < 0 && (next = nextline(buf, inbuf)))": the lines of
\* the buffer are handled until the headers end, the message is lost or no
\* whole line is left; a handled line is taken out of the buffer.
RECURSIVE HandleLines(_, _)
HandleLines(packet, b) ==
    LET next == nextline(b)
    IN  IF next = 0
           THEN [packet |-> packet, buf |-> b, msg_size |-> -1, bad |-> FALSE]
        ELSE LET h == msg_handle_line(packet, SubSeq(b, 1, next - 1))
                 rest == SubSeq(b, next + 1, Len(b))
             IN  IF h.packet = NoPacket
                    THEN [packet |-> NoPacket, buf |-> b, msg_size |-> h.msg_size,
                          bad |-> TRUE]
                 ELSE IF h.msg_size < 0 THEN HandleLines(h.packet, rest)
                 ELSE [packet |-> h.packet, buf |-> rest, msg_size |-> h.msg_size,
                       bad |-> FALSE]

Min(a, b) == IF a < b THEN a ELSE b

\* what the steps of this part leave alone
ROnly(S) ==
    /\ UNCHANGED cvars
    /\ UNCHANGED qvars
    /\ UNCHANGED avars
    /\ IF "reader" \in S THEN TRUE ELSE UNCHANGED reader
    /\ IF "conn_stop" \in S THEN TRUE ELSE UNCHANGED conn_stop
    /\ UNCHANGED svars
    /\ UNCHANGED lvars
    /\ UNCHANGED dvars
    /\ UNCHANGED yvars

\* The sender writes the next byte of its script.
SenderWrite ==
    /\ ~closed
    /\ script # << >>
    /\ reader' = [reader EXCEPT !.wire = Append(wire, Head(script)),
                                !.script = Tail(script)]
    /\ ROnly({"reader"})

\* The sender closes the connection.
SenderClose ==
    /\ ~closed
    /\ reader' = [reader EXCEPT !.closed = TRUE]
    /\ ROnly({"reader"})

\* Time passes.
Tick ==
    /\ now < MaxTime
    /\ reader' = [reader EXCEPT !.now = now + 1]
    /\ ROnly({"reader"})

\* The watchdog or another connection sets conn->stop.
SetStop ==
    /\ conn_stop = 0
    /\ conn_stop' = 1
    /\ ROnly({"conn_stop"})

\* The worker's loop, "while (conn->stop == 0)": after these replies the
\* worker of a connection without a player reads again.
Continues(r) == r \in {"none", "ok", "bad_packet", "error"}

\* rtsp_read_request begins: no message, an empty buffer of buflen bytes.
ReadRequest ==
    /\ rpc \in {"idle", "returned"}
    /\ conn_stop = 0
    /\ Continues(reply)
    /\ reader' = [reader EXCEPT !.rpc = "header",
                                !.buf = << >>,
                                !.msg_size = -1,
                                !.the_packet = NoPacket,
                                !.reply = "ok",
                                !.threshold_time = 0,
                                !.warning_message_sent = 0,
                                !.stal = 0]
    /\ ROnly({"reader"})

\* "shutdown:": with a reply other than ok the message is freed and the
\* buffer released.
Shutdown(r) ==
    [reader EXCEPT !.reply = r,
                   !.rpc = "returned",
                   !.the_packet = NoPacket,
                   !.buf = << >>]

\* The header loop, "if (conn->stop != 0)"
HeaderStop ==
    /\ rpc = "header"
    /\ conn_stop # 0
    /\ reader' = Shutdown("immediate_shutdown_requested")
    /\ ROnly({"reader"})

\* The header loop, one turn: read(fd, buf + inbuf, buflen - inbuf) returns
\* nread bytes, which are parsed line by line.  When the headers have ended
\* the body loop is prepared.
HeaderRead(nread) ==
    /\ rpc = "header"
    /\ conn_stop = 0
    /\ nread \in 1..Min(Len(wire), buflen - Len(buf))
    /\ LET h == HandleLines(the_packet, buf \o SubSeq(wire, 1, nread))
           rest == SubSeq(wire, nread + 1, Len(wire))
       IN  reader' =
             IF h.bad
                THEN [Shutdown("bad_packet") EXCEPT !.wire = rest]
             ELSE IF h.msg_size < 0
                THEN [reader EXCEPT !.wire = rest,
                                    !.the_packet = h.packet,
                                    !.buf = h.buf,
                                    !.msg_size = h.msg_size,
                                    !.rpc = "header"]
             ELSE [reader EXCEPT !.wire = rest,
                                 !.the_packet = h.packet,
                                 !.buf = h.buf,
                                 !.msg_size = h.msg_size,
                                 !.rpc = "body",
                                 !.threshold_time = now + StallThreshold,
                                 !.warning_message_sent = 0]
    /\ ROnly({"reader"})

\* The header loop: read returns 0, the sender has closed.
HeaderClosed ==
    /\ rpc = "header"
    /\ conn_stop = 0
    /\ wire = << >>
    /\ closed
    /\ reader' = Shutdown("channel_closed")
    /\ ROnly({"reader"})

\* The header loop: read fails with an error other than EINTR and EAGAIN.
HeaderError ==
    /\ rpc = "header"
    /\ conn_stop = 0
    /\ reader' = Shutdown("read_error")
    /\ ROnly({"reader"})

\* The body loop, "while (inbuf < msg_size)", up to the read: the warning
\* of a source that stalls, then the test of conn->stop.  After the loop the
\* buffer becomes the content of the message: "msg->contentlength = inbuf;
\* msg->content = buf;".
Stalled == warning_message_sent = 0 /\ now > threshold_time

BodyTurn ==
    /\ rpc = "body"
    /\ reader' =
         IF Len(buf) < msg_size
            THEN [(IF conn_stop # 0
                      THEN Shutdown("immediate_shutdown_requested")
                      ELSE [reader EXCEPT !.rpc = "body_read"])
                    EXCEPT !.warning_message_sent = IF Stalled THEN 1 ELSE @,
                           !.stal = IF Stalled THEN @ + 1 ELSE @]
            ELSE [reader EXCEPT !.the_packet =
                                    [the_packet EXCEPT !.contentlength = Len(buf),
                                                       !.content = buf],
                                !.rpc = "returned"]
    /\ ROnly({"reader"})

\* The body loop, the read of one turn: "read_chunk = msg_size - inbuf",
\* at most max_read_chunk; usleep(80000); read(fd, buf + inbuf, read_chunk)
\* returns nread bytes.
BodyRead(nread) ==
    /\ rpc = "body_read"
    /\ nread \in 1..Min(Len(wire), Min(msg_size - Len(buf), max_read_chunk))
    /\ reader' = [reader EXCEPT !.wire = SubSeq(wire, nread + 1, Len(wire)),
                                !.buf = buf \o SubSeq(wire, 1, nread),
                                !.rpc = "body"]
    /\ ROnly({"reader"})

\* The body loop: read returns 0.
BodyClosed ==
    /\ rpc = "body_read"
    /\ wire = << >>
    /\ closed
    /\ reader' = Shutdown("error")
    /\ ROnly({"reader"})

\* The body loop: read fails.
BodyError ==
    /\ rpc = "body_read"
    /\ reader' = Shutdown("read_error")
    /\ ROnly({"reader"})

ReadStep ==
    \/ ReadRequest
    \/ HeaderStop
    \/ \E nread \in 1..Len(wire) : HeaderRead(nread)
    \/ HeaderClosed
    \/ HeaderError
    \/ BodyTurn
    \/ \E nread \in 1..Len(wire) : BodyRead(nread)
    \/ BodyClosed
    \/ BodyError

ReadNext ==
    \/ SenderWrite
    \/ SenderClose
    \/ Tick
    \/ SetStop
    \/ ReadStep


\* =========================================================================
\* handle_setup with its ports
\* =========================================================================
\* The Transport header of a SETUP request: absent, or with the ports that
\* atoi reads after "control_port=" and "timing_port=" (0: not named).
SetupPorts == {6001, 6002}
NoPorts == [control |-> 0, timing |-> 0]
NoTransport == [header |-> FALSE, control |-> 0, timing |-> 0]
TransportHeaders ==
    {NoTransport}
    \cup [header : {TRUE}, control : SetupPorts \cup {0}, timing : SetupPorts \cup {0}]

HasPorts(t) == t.header /\ t.control # 0 /\ t.timing # 0

\* rtp_setup(&conn->local, &conn->remote, cport, tport, conn): if it
\* succeeds the RTP side runs, the remote ports are kept and three local
\* ports are bound, other ones at every call; if it fails no audio port is
\* there.
NoLocalPorts == [control |-> 0, timing |-> 0, audio |-> 0]
BoundPorts(k) == [control |-> 10 * k + 1, timing |-> 10 * k + 2, audio |-> 10 * k + 3]

\* A handle_setup that sets up the RTP side at every SETUP that names its
\* ports (the variant against which C23 is tried).
CallsRtpSetupAlways(t) == HasPorts(t)

\* "if (conn->rtp_running) ... else rtp_setup(...)"
CallsRtpSetup(t) == HasPorts(t) /\ conn_rtp_running = 0

\* handle_announce gives the connection the player.
SetupAnnounce ==
    /\ ~holds_player
    /\ Len(setups) < MaxSetups
    /\ setup' = [setup EXCEPT !.holds_player = TRUE]
    /\ UNCHANGED <<cvars, qvars, avars, rvars, lvars, dvars, yvars>>

\* handle_setup for a request with Transport header t; ok says whether
\* rtp_setup, if called, succeeds.  The response is 451 unless the local
\* audio port is set; a response other than 200 releases the player.
handle_setup(t, ok) ==
    /\ Len(setups) < MaxSetups
    /\ LET called == holds_player /\ CallsRtpSetup(t)
           bound == called /\ ok
           ports == IF bound THEN BoundPorts(rtp_setups + 1) ELSE local_ports
           respcode == IF holds_player /\ HasPorts(t) /\ ports.audio # 0
                          THEN 200 ELSE 451
       IN  /\ called \/ ok
           /\ holds_player \/ t = NoTransport
           /\ setup' =
                [conn_rtp_running |-> IF bound THEN 1 ELSE conn_rtp_running,
                 remote_ports |->
                     IF bound THEN [control |-> t.control, timing |-> t.timing]
                              ELSE remote_ports,
                 local_ports |-> ports,
                 rtp_setups |-> IF called THEN rtp_setups + 1 ELSE rtp_setups,
                 holds_player |-> (holds_player /\ respcode = 200),
                 setups |-> Append(setups,
                     [transport |-> t, called |-> called, respcode |-> respcode,
                      ports |-> IF respcode = 200 THEN ports ELSE NoLocalPorts])]
    /\ UNCHANGED <<cvars, qvars, avars, rvars, lvars, dvars, yvars>>

SetupNext ==
    \/ SetupAnnounce
    \/ \E t \in TransportHeaders, ok \in BOOLEAN : handle_setup(t, ok)


\* =========================================================================
\* The worker's loop and what rtsp_read_request returns
\* =========================================================================
Replies == {"ok", "immediate_shutdown_requested", "channel_closed", "read_error",
            "bad_packet", "error"}

\* msg_write_response: -1, -2, -3 for a packet that leaves 1024 bytes or less
\* of pkt free after the headers, the Content-Length header, the empty line;
\* -4 if write fails, -5 if it writes less than the packet; else 0.
Overlong == 0..3
Written == {"all", "failed", "part"}
msg_write_response(overlong, written) ==
    IF overlong # 0 THEN 0 - overlong
    ELSE IF written = "failed" THEN -4
    ELSE IF written = "part" THEN -5
    ELSE 0

\* A worker that ends the connection only if the write itself fails (the
\* variant against which C26 is tried).
StopsOnFailedWrite(err) == err = -4

\* "if (err) { ... SO_LINGER ...; conn->stop = 1; }"
StopsOnWriteError(err) == err # 0

\* A worker that writes no response (the variant against which C27 is
\* tried).
WritesNothing(s) == FALSE

\* A worker that writes its response whatever conn->stop holds (the
\* variant against which C40 is tried).
WritesAlways(s) == TRUE

\* "if (conn->stop == 0) { int err = msg_write_response(conn->fd, resp);"
WritesResponse(s) == s = 0

\* A worker that goes on after a closed channel (the variant against which
\* C24 is tried).
tstop_on_shutdown(r, player, attempts) == r = "immediate_shutdown_requested"

\* tstop after a reply other than ok; attempts is the attempt count after
\* the decrement that a connection with a player makes.
tstop(r, player, attempts) ==
    IF r = "immediate_shutdown_requested" THEN TRUE
    ELSE IF r \in {"channel_closed", "read_error"}
       THEN IF player # 0 THEN attempts = 0 ELSE TRUE
    ELSE FALSE

\* what the steps of this part leave alone
LOnly(S) ==
    /\ UNCHANGED <<cvars, qvars, avars, svars, dvars, yvars>>
    /\ UNCHANGED reader
    /\ IF "conn_stop" \in S THEN TRUE ELSE UNCHANGED conn_stop
    /\ IF "worker" \in S THEN TRUE ELSE UNCHANGED worker

\* Another thread sets conn->stop: the watchdog, a connection that takes
\* the session over.
LoopStop ==
    /\ wpc \notin {"cleanup", "exited"}
    /\ conn_stop = 0
    /\ conn_stop' = 1
    /\ LOnly({"conn_stop"})

\* "while (conn->stop == 0)"
LoopTest ==
    /\ wpc = "test"
    /\ IF conn_stop = 0
          THEN /\ Len(replies) < MaxReads
               /\ worker' = [worker EXCEPT !.wpc = "reading"]
          ELSE worker' = [worker EXCEPT !.wpc = "cleanup"]
    /\ LOnly({"worker"})

\* rtsp_read_request returns r, immediate_shutdown_requested if it has seen
\* conn->stop set.  For ok the request is taken on; for the other replies
\* the else branch runs: the attempt count of a connection with a player,
\* tstop, the fixed 400 text for a bad packet, SO_LINGER after a read error
\* that ends the attempts, "if (tstop) conn->stop = 1".
LoopReturn(r) ==
    /\ wpc = "reading"
    /\ r = "immediate_shutdown_requested" => conn_stop # 0
    /\ LET counted == r \in {"channel_closed", "read_error"}
                        /\ conn_player_thread # 0
           attempts == IF counted THEN rtsp_read_request_attempt_count - 1
                                  ELSE rtsp_read_request_attempt_count
           read == [worker EXCEPT !.replies = Append(replies, r),
                                  !.dispatches = 0,
                                  !.responses = 0]
       IN  IF r = "ok"
              THEN /\ worker' = [read EXCEPT !.wpc = "handle"]
                   /\ UNCHANGED conn_stop
              ELSE /\ worker' =
                        [read EXCEPT !.wpc = "test",
                                     !.rtsp_read_request_attempt_count = attempts,
                                     !.linger_zero = (linger_zero
                                                      \/ (/\ counted
                                                          /\ attempts = 0
                                                          /\ r = "read_error"))]
                   /\ conn_stop' = IF tstop(r, conn_player_thread, attempts)
                                      THEN 1 ELSE conn_stop
    /\ LOnly({"conn_stop", "worker"})

\* The request is answered: with the authorization passed the handler of
\* the method is called, the first entry of method_handlers that matches;
\* handle_record starts the player, handle_teardown stops it.
LoopHandle(m, passes) ==
    /\ wpc = "handle"
    /\ worker' =
         [worker EXCEPT !.dispatches =
                            IF passes /\ m \in method_handlers THEN 1 ELSE 0,
                        !.conn_player_thread =
                            IF passes /\ m = "RECORD" THEN 1
                            ELSE IF passes /\ m = "TEARDOWN" THEN 0
                            ELSE conn_player_thread,
                        !.wpc = "write"]
    /\ LOnly({"worker"})

\* "if (conn->stop == 0) { err = msg_write_response(...); if (err) ... }"
LoopWrite(overlong, written) ==
    /\ wpc = "write"
    /\ IF WritesResponse(conn_stop)
          THEN LET err == msg_write_response(overlong, written)
               IN  /\ worker' =
                        [worker EXCEPT !.write_err = err,
                                       !.responses =
                                           IF overlong = 0 /\ written # "failed"
                                              THEN responses + 1 ELSE responses,
                                       !.linger_zero =
                                           (linger_zero \/ StopsOnWriteError(err)),
                                       !.wpc = "test"]
                   /\ conn_stop' = IF StopsOnWriteError(err) THEN 1 ELSE conn_stop
          ELSE /\ overlong = 0
               /\ written = "all"
               /\ worker' = [worker EXCEPT !.wpc = "test"]
               /\ UNCHANGED conn_stop
    /\ LOnly({"conn_stop", "worker"})

\* pthread_cleanup_pop(1); pthread_exit(NULL);
LoopCleanup ==
    /\ wpc = "cleanup"
    /\ worker' = [worker EXCEPT !.wpc = "exited"]
    /\ LOnly({"worker"})

LoopNext ==
    \/ LoopStop
    \/ LoopTest
    \/ \E r \in Replies : LoopReturn(r)
    \/ \E m \in Methods, passes \in BOOLEAN : LoopHandle(m, passes)
    \/ \E overlong \in Overlong, written \in Written : LoopWrite(overlong, written)
    \/ LoopCleanup


\* =========================================================================
\* The watchdog of a connection
\* =========================================================================
\* The barks that act.
ThirdBark(barks) == barks = 3

\* "if ((config.dont_check_timeout == 0) && (config.timeout != 0))", "if
\* (last_watchdog_bark_time != 0)", "if (time_since_last_bark >= ct)"
Barks(t) ==
    /\ dont_check_timeout = 0
    /\ timeout # 0
    /\ watchdog_bark_time # 0
    /\ t - watchdog_bark_time >= timeout

\* what the steps of this part leave alone
DOnly(S) ==
    /\ UNCHANGED <<cvars, qvars, avars, svars, lvars, yvars>>
    /\ UNCHANGED reader
    /\ IF "conn_stop" \in S THEN TRUE ELSE UNCHANGED conn_stop
    /\ IF "watchdog" \in S THEN TRUE ELSE UNCHANGED watchdog

\* player_watchdog_thread_code, one turn of its loop: it sleeps for two
\* seconds and, if the time since watchdog_bark_time has reached the
\* timeout, barks.  The first bark sets stop and cancels the worker, the
\* third runs the command for an unfixable error if one is configured and
\* none was reported yet.
DogTurn ==
    /\ dog_pc = "running"
    /\ dog_time < MaxDogTime
    /\ IF Barks(dog_time + 1)
          THEN LET barks == conn_watchdog_barks + 1
                   first == FirstBark(barks)
                   runs == /\ ~first
                           /\ ThirdBark(barks)
                           /\ cmd_unfixable
                           /\ unfixable_error_reported = 0
               IN  /\ watchdog' =
                        [watchdog EXCEPT
                            !.dog_time = dog_time + 1,
                            !.conn_watchdog_barks = barks,
                            !.stops_set = IF first THEN @ + 1 ELSE @,
                            !.cancels_sent = IF first THEN @ + 1 ELSE @,
                            !.unfixable_error_reported = IF runs THEN 1 ELSE @,
                            !.commands = IF runs THEN @ + 1 ELSE @]
                   /\ conn_stop' = IF first THEN 1 ELSE conn_stop
          ELSE /\ watchdog' = [watchdog EXCEPT !.dog_time = dog_time + 1]
               /\ UNCHANGED conn_stop
    /\ DOnly({"conn_stop", "watchdog"})

\* The worker parses a request: its loop runs while conn->stop is 0 and no
\* cancellation is pending.
DogRequest ==
    /\ worker_pc = "loop"
    /\ conn_stop = 0
    /\ cancels_sent = 0
    /\ last_request # dog_time
    /\ watchdog' = [watchdog EXCEPT !.last_request = dog_time]
    /\ DOnly({"watchdog"})

\* rtsp_conversation_thread_cleanup_function: pthread_cancel and
\* pthread_join of the watchdog, which ends in its usleep.
DogCleanup ==
    /\ worker_pc = "loop"
    /\ watchdog' = [watchdog EXCEPT !.worker_pc = "cleaned",
                                    !.dog_pc = "ended"]
    /\ DOnly({"watchdog"})

DogNext ==
    \/ DogTurn
    \/ DogRequest
    \/ DogCleanup


\* =========================================================================
\* cleanup_threads: one pass of the reaper over the tracking table
\* =========================================================================
\* The table is conns[0 .. nconns); the entries are the connections
\* 1 .. n that track_thread has appended, in that order.  The workers of
\* the connections run beside the pass and clear their running flag when
\* they end.
TableConns == 1..MaxTable

conns == reaper.conns                  \* conns[], from index 0
nconns == reaper.nconns
conn_running == reaper.conn_running    \* conns[k]->running
joins == reaper.joins                  \* pthread_join calls for a connection
frees == reaper.frees                  \* free calls for a connection
found_running == reaper.found_running  \* the connections the pass has found
                                       \*   running
reap_pc == reaper.reap_pc
running_at_start == reaper.running_at_start  \* the flags when the pass began

\* A pass that moves on after every entry (the variant against which C31 is
\* tried).
NextIndexAlways(i, removed) == i + 1

\* "for (i = 0; i < nconns;)": i++ only in the else branch
NextIndex(i, removed) == IF removed THEN i ELSE i + 1

\* what the steps of this part and of the parts after it leave alone
YOnly(S) ==
    /\ UNCHANGED <<cvars, qvars, avars, rvars, svars, lvars, dvars>>
    /\ IF "reaper" \in S THEN TRUE ELSE UNCHANGED reaper
    /\ IF "batch" \in S THEN TRUE ELSE UNCHANGED batch
    /\ IF "splitter" \in S THEN TRUE ELSE UNCHANGED splitter
    /\ IF "walk" \in S THEN TRUE ELSE UNCHANGED walk
    /\ IF "handles" \in S THEN TRUE ELSE UNCHANGED handles

\* The worker of a tracked connection ends: "conn->running = 0" at the end
\* of its cleanup.
ReapWorkerEnds(c) ==
    /\ reap_pc = "loop"
    /\ c \in DOMAIN conn_running
    /\ conn_running[c] = 1
    /\ reaper' = [reaper EXCEPT !.conn_running[c] = 0]
    /\ YOnly({"reaper"})

\* One turn of the loop: an entry that is not running is joined and freed,
\* the count is decremented and, if entries are left, the last one is
\* copied into its place.
ReapTurn ==
    /\ reap_pc = "loop"
    /\ reaper.i < nconns
    /\ LET c == conns[reaper.i + 1]
           removed == conn_running[c] = 0
       IN  reaper' =
             IF removed
                THEN [reaper EXCEPT
                        !.joins[c] = @ + 1,
                        !.frees[c] = @ + 1,
                        !.nconns = nconns - 1,
                        !.conns = IF nconns - 1 # 0
                                     THEN [conns EXCEPT ![reaper.i + 1] = conns[nconns]]
                                     ELSE conns,
                        !.i = NextIndex(reaper.i, TRUE)]
                ELSE [reaper EXCEPT
                        !.found_running = @ \cup {c},
                        !.i = NextIndex(reaper.i, FALSE)]
    /\ YOnly({"reaper"})

\* The loop ends.
ReapEnd ==
    /\ reap_pc = "loop"
    /\ reaper.i >= nconns
    /\ reaper' = [reaper EXCEPT !.reap_pc = "done"]
    /\ YOnly({"reaper"})

ReapNext ==
    \/ \E c \in TableConns : ReapWorkerEnds(c)
    \/ ReapTurn
    \/ ReapEnd


\* =========================================================================
\* SET_PARAMETER with a DMAP body: the batch of one request at one sink
\* =========================================================================
\* The request has a body of so many DMAP tuples and an RTP-Info header
\* with an rtptime or none.  Its handler calls send_metadata for 'mdst', for
\* the 'core' item of each tuple in the order of the body, and for 'mden'.
\* The sink's queue is the ring of pc_queue; a handler of another request
\* adds items of its own, and the consumer of the sink takes what is there.
\* An item is of a request, has a type and a code and, if it is a 'core'
\* item, is the nth of its body.
MdItem(request, type, code, nth) ==
    [request |-> request, type |-> type, code |-> code, nth |-> nth]
NoItem == MdItem(0, "none", "none", 0)

\* A handler that sends both brackets before it walks the body (the
\* variant against which C32 is tried).
BracketsFirst(tuples) ==
    <<MdItem(1, "ssnc", "mdst", 0), MdItem(1, "ssnc", "mden", 0)>>
        \o [j \in 1..tuples |-> MdItem(1, "core", "tag", j)]

\* "send_metadata('ssnc', 'mdst', ...); handle_set_parameter_metadata(conn,
\* req, resp); send_metadata('ssnc', 'mden', ...)"
BatchOf(tuples) ==
    <<MdItem(1, "ssnc", "mdst", 0)>>
        \o [j \in 1..tuples |-> MdItem(1, "core", "tag", j)]
        \o <<MdItem(1, "ssnc", "mden", 0)>>

\* The block argument of a send_metadata call of the request: the brackets
\* are sent without blocking if there is no rtptime.
BlockOf(item, rtptime) == IF item.type = "ssnc" /\ ~rtptime THEN 0 ELSE 1

\* pc_queue_add_item: EBUSY if the lock is not had without blocking,
\* EWOULDBLOCK if the queue is full, else the item is copied to items[eoq].
pc_queue_add_item(q, item, block, busy) ==
    IF block = 0 /\ busy THEN [q EXCEPT !.response = EBUSY]
    ELSE IF q.count < Capacity
       THEN [q EXCEPT !.items[q.eoq] = item,
                      !.eoq = Fold(q.eoq),
                      !.count = q.count + 1,
                      !.response = 0]
    ELSE [q EXCEPT !.response = EWOULDBLOCK]

\* pc_queue_get_item: the item at items[toq]
pc_queue_get_item(q) ==
    [q EXCEPT !.toq = Fold(q.toq), !.count = q.count - 1]

\* The handler of the request makes its next send_metadata call.
BatchSend(busy) ==
    /\ batch.sent < Len(BatchOf(batch.tuples))
    /\ LET item == BatchOf(batch.tuples)[batch.sent + 1]
           block == BlockOf(item, batch.rtptime)
           q == pc_queue_add_item(batch.queue, item, block, busy)
       IN  /\ busy => block = 0
           /\ batch' = [batch EXCEPT !.queue = q,
                                     !.sent = @ + 1,
                                     !.dropped = IF q.response # 0
                                                    THEN Append(@, item) ELSE @]
    /\ YOnly({"batch"})

\* The handler of another request sends an item.
BatchOtherSend ==
    /\ batch.others < MaxOthers
    /\ batch' = [batch EXCEPT
                   !.queue = pc_queue_add_item(batch.queue,
                                MdItem(2, "core", "tag", batch.others + 1), 1, FALSE),
                   !.others = @ + 1]
    /\ YOnly({"batch"})

\* The consumer of the sink takes an item.
BatchTake ==
    /\ batch.queue.count > 0
    /\ batch' = [batch EXCEPT
                   !.taken = Append(@, batch.queue.items[batch.queue.toq]),
                   !.queue = pc_queue_get_item(batch.queue)]
    /\ YOnly({"batch"})

BatchNext ==
    \/ \E busy \in BOOLEAN : BatchSend(busy)
    \/ BatchOtherSend
    \/ BatchTake


\* =========================================================================
\* rtsp_read_request and nextline, character by character
\* =========================================================================
\* The characters of a request: "CR" is \r and "LF" is \n; "R" is the text
\* of a request line "METHOD URI RTSP/1.0"; a header line is the text of
\* its name, "N" for any name and "L" for Content-Length, and the text of
\* ": " with its value, "V" for any value and "1" for the value 1; "B" is a
\* byte of a body.
Terminators == {<<"CR">>, <<"LF">>, <<"CR", "LF">>}
HeaderTexts == {<<"N", "V">>, <<"L", "1">>}

RECURSIVE Flat(_)
Flat(ss) == IF ss = << >> THEN << >> ELSE Head(ss) \o Flat(Tail(ss))

\* The content length a sender means with its headers
Announced(hs) == IF \E k \in 1..Len(hs) : hs[k] = <<"L", "1">> THEN 1 ELSE 0

\* The bytes of one request: the request line, the header lines hs, the
\* empty line, each line with its terminator of ts, and the body.
Stream(hs, ts) ==
    <<"R">> \o ts[1]
    \o Flat([k \in 1..Len(hs) |-> hs[k] \o ts[k + 1]])
    \o ts[Len(hs) + 2]
    \o [j \in 1..Announced(hs) |-> "B"]

Streams ==
    UNION {{Stream(hs, ts) : hs \in [1..k -> HeaderTexts],
                             ts \in [1..(k + 2) -> Terminators]} :
           k \in 0..MaxHeaders}

\* nextline(in, inbuf): the line is what is before the first \r or \n of
\* the buffer.  After a \r a \n is taken with it if it is in the buffer
\* ("(*in == '\n') && (inbuf)", inbuf counted down by the \r).  The value
\* is the place where the next line begins, 0 (NULL) without a terminator.
FirstTerminator(in) ==
    IF \E j \in 1..Len(in) : in[j] \in {"CR", "LF"}
       THEN CHOOSE j \in 1..Len(in) :
               in[j] \in {"CR", "LF"} /\ \A k \in 1..(j - 1) : in[k] \notin {"CR", "LF"}
       ELSE 0

nextline_in(in) ==
    LET j == FirstTerminator(in)
    IN  IF j = 0 THEN 0
        ELSE IF in[j] = "CR" /\ j < Len(in) /\ in[j + 1] = "LF" THEN j + 2
        ELSE j + 1

\* No message, and the message of msg_init with the method of the request
\* line.
NoMsg == [method |-> "", headers |-> << >>, contentlength |-> 0, content |-> << >>]
NewMsg == [method |-> "R", headers |-> << >>, contentlength |-> 0, content |-> << >>]

\* atoi of the value of the Content-Length header, 0 without the header
ContentLengthOf(msg) ==
    IF \E k \in 1..Len(msg.headers) : msg.headers[k][1] = "L"
       THEN LET k == CHOOSE k \in 1..Len(msg.headers) :
                        /\ msg.headers[k][1] = "L"
                        /\ \A l \in 1..(k - 1) : msg.headers[l][1] # "L"
            IN  IF msg.headers[k][2] = "1" THEN 1 ELSE 0
       ELSE 0

\* msg_handle_line on the text of a line: the first line makes the message
\* if it is a request line; a later line that is not empty is a header if
\* it has ": "; the empty line ends the headers.
msg_handle_text(msg, line) ==
    IF msg = NoMsg
       THEN IF line = <<"R">>
               THEN [msg |-> NewMsg, msg_size |-> -1]
               ELSE [msg |-> NoMsg, msg_size |-> 0]
    ELSE IF Len(line) # 0
       THEN IF Len(line) = 2 /\ line[2] \in {"V", "1"}
               THEN [msg |-> [msg EXCEPT !.headers = Append(@, line)],
                     msg_size |-> -1]
               ELSE [msg |-> NoMsg, msg_size |-> 0]
    ELSE [msg |-> msg, msg_size |-> ContentLengthOf(msg)]

\* "while (msg_size < 0 && (next = nextline(buf, inbuf)))"
RECURSIVE LineLoop(_, _)
LineLoop(msg, b) ==
    LET next == nextline_in(b)
    IN  IF next = 0
           THEN [msg |-> msg, buf |-> b, msg_size |-> -1, bad |-> FALSE]
        ELSE LET h == msg_handle_text(msg, SubSeq(b, 1, FirstTerminator(b) - 1))
                 rest == SubSeq(b, next, Len(b))
             IN  IF h.msg = NoMsg
                    THEN [msg |-> NoMsg, buf |-> b, msg_size |-> h.msg_size,
                          bad |-> TRUE]
                 ELSE IF h.msg_size < 0 THEN LineLoop(h.msg, rest)
                 ELSE [msg |-> h.msg, buf |-> rest, msg_size |-> h.msg_size,
                       bad |-> FALSE]

\* What rtsp_read_request has returned: the reply and the message.
Outcome(r, m) == [reply |-> r, msg |-> m]

\* rtsp_read_request on a stream that one read brings whole, the sender
\* closing after it.
ReadWhole(stream) ==
    LET h == LineLoop(NoMsg, stream)
    IN  IF h.bad THEN Outcome("bad_packet", NoMsg)
        ELSE IF h.msg_size < 0 THEN Outcome("channel_closed", NoMsg)
        ELSE IF Len(h.buf) < h.msg_size THEN Outcome("error", NoMsg)
        ELSE Outcome("ok", [h.msg EXCEPT !.contentlength = Len(h.buf),
                                         !.content = h.buf])

\* The state of the call: the stream, the place where the socket splits
\* it, what is not read yet, and the locals of rtsp_read_request.
split_stream == splitter.stream
split_at == splitter.at
split_wire == splitter.wire
split_buf == splitter.buf
split_msg == splitter.the_packet
split_size == splitter.msg_size
split_pc == splitter.pc
split_reply == splitter.reply

\* What a read returns: the bytes before the split, after them the rest.
Arrived ==
    IF Len(split_wire) = Len(split_stream) /\ split_at < Len(split_stream)
       THEN split_at
       ELSE Len(split_wire)

\* "shutdown:" with a reply other than ok
SplitShutdown(r) ==
    [splitter EXCEPT !.reply = r, !.pc = "returned", !.the_packet = NoMsg,
                     !.buf = << >>]

\* The header loop, one turn: the read and the lines of the buffer.
SplitHeaderRead ==
    /\ split_pc = "header"
    /\ split_wire # << >>
    /\ LET h == LineLoop(split_msg, split_buf \o SubSeq(split_wire, 1, Arrived))
           rest == SubSeq(split_wire, Arrived + 1, Len(split_wire))
       IN  splitter' =
             IF h.bad THEN [SplitShutdown("bad_packet") EXCEPT !.wire = rest]
             ELSE [splitter EXCEPT !.wire = rest,
                                   !.the_packet = h.msg,
                                   !.buf = h.buf,
                                   !.msg_size = h.msg_size,
                                   !.pc = IF h.msg_size < 0 THEN "header"
                                                            ELSE "body"]
    /\ YOnly({"splitter"})

\* The header loop: read returns 0, the sender has closed after the stream.
SplitHeaderClosed ==
    /\ split_pc = "header"
    /\ split_wire = << >>
    /\ splitter' = SplitShutdown("channel_closed")
    /\ YOnly({"splitter"})

\* The body loop, one turn: "read_chunk = msg_size - inbuf" and the read,
\* which returns 0 when the sender has closed.
SplitBodyRead ==
    /\ split_pc = "body"
    /\ Len(split_buf) < split_size
    /\ LET nread == Min(Arrived, split_size - Len(split_buf))
       IN  splitter' =
             IF split_wire = << >> THEN SplitShutdown("error")
             ELSE [splitter EXCEPT
                       !.wire = SubSeq(split_wire, nread + 1, Len(split_wire)),
                       !.buf = split_buf \o SubSeq(split_wire, 1, nread)]
    /\ YOnly({"splitter"})

\* After the body loop: "msg->contentlength = inbuf; msg->content = buf;"
SplitDeliver ==
    /\ split_pc = "body"
    /\ Len(split_buf) >= split_size
    /\ splitter' = [splitter EXCEPT
                        !.the_packet = [split_msg EXCEPT
                                            !.contentlength = Len(split_buf),
                                            !.content = split_buf],
                        !.pc = "returned"]
    /\ YOnly({"splitter"})

SplitNext ==
    \/ SplitHeaderRead
    \/ SplitHeaderClosed
    \/ SplitBodyRead
    \/ SplitDeliver


\* =========================================================================
\* handle_set_parameter_metadata: the walk over the tuples of a DMAP body
\* =========================================================================
\* "unsigned int off; uint32_t itag, vl;": a number of 32 bits is kept as
\* its two halves of 16 bits, so that sums are taken modulo 2^32.
Half == 65536

U32(hi, lo) == [hi |-> hi, lo |-> lo]
Small(n) == U32(0, n)

\* a + b modulo 2^32, and whether the sum has wrapped around
Add32(a, b) ==
    LET lo == a.lo + b.lo
        hi == a.hi + b.hi + (lo \div Half)
    IN  U32(hi % Half, lo % Half)

Wraps(a, b) == a.hi + b.hi + ((a.lo + b.lo) \div Half) >= Half

\* "off < cl", cl being a length that the model keeps small
Below(a, n) == a.hi = 0 /\ a.lo < n

\* The four bytes of a number in network order, and ntohl of four bytes.
Bytes4(a) == <<a.hi \div 256, a.hi % 256, a.lo \div 256, a.lo % 256>>
ntohl(b) == U32(b[1] * 256 + b[2], b[3] * 256 + b[4])

\* The length fields of the tuples of a body: 0, 1, 2, 2^32 - 8 and
\* 2^32 - 1.
LengthFields == {Small(0), Small(1), Small(2), U32(65535, 65528), U32(65535, 65535)}

\* A tuple on the wire: the tag, the length field and n bytes of value,
\* which the sender may have made fewer or more than the field says.
TupleBytes(field, n) == <<99, 111, 114, 101>> \o Bytes4(field) \o [j \in 1..n |-> 7]
TuplesOnWire == {TupleBytes(field, n) : field \in LengthFields, n \in 0..2}

\* The bodies: the 8 bytes before the first tuple and up to MaxTuples
\* tuples, cut off at any length.
WholeBodies ==
    {<<109, 108, 105, 116, 0, 0, 0, 0>> \o Flat(ts) :
        ts \in UNION {[1..k -> TuplesOnWire] : k \in 0..MaxTuples}}
Bodies == UNION {{SubSeq(b, 1, n) : n \in 0..Len(b)} : b \in WholeBodies}

\* What lies behind the body in memory, byte for byte: it is not the
\* request's and the walk may find anything there.
Junk == {<<0, 0, 0, 0>>, <<255, 255, 255, 255>>, <<0, 0, 0, 1>>}

\* The range of n bytes at offset a lies inside a body of cl bytes.
InsideBody(a, n, cl) == a.hi = 0 /\ n.hi = 0 /\ a.lo + n.lo <= cl

\* memcpy(&x, cp + off, 4): the bytes of the body where the place is inside
\* it, those behind it elsewhere.
Fetch(body, a, junk) ==
    [k \in 1..4 |->
        IF a.hi = 0 /\ a.lo + k <= Len(body) THEN body[a.lo + k] ELSE junk[k]]

\* The state of the walk: the body, off, the last tag and length, the
\* offsets at which a turn of the loop began, and what the turns did.
walk_body == walk.body
off == walk.off
vl == walk.vl
walk_pc == walk.pc
turns == walk.turns
outside == walk.outside
wrapped == walk.wrapped
begun == walk.begun
handed == walk.handed

\* "while (off < cl)"
WalkGuard(a, cl) == Below(a, cl)

\* One turn of the loop: the tag at off, the length at off + 4, the value
\* of vl bytes at off + 8 handed to send_metadata with the request as its
\* carrier (NULL and 0 for a length of 0), and "off += vl".
WalkTurn(junk1, junk2) ==
    /\ walk_pc = "loop"
    /\ WalkGuard(off, Len(walk_body))
    /\ turns < MaxTurns
    /\ LET cl == Len(walk_body)
           at_tag == off
           at_len == Add32(off, Small(4))
           at_val == Add32(at_len, Small(4))
           len == ntohl(Fetch(walk_body, at_len, junk2))
           next == Add32(at_val, len)
       IN  walk' = [walk EXCEPT
                      !.itag = ntohl(Fetch(walk_body, at_tag, junk1)),
                      !.vl = len,
                      !.off = next,
                      !.turns = @ + 1,
                      !.begun = @ \cup {at_tag},
                      !.again = @ \/ at_tag \in begun,
                      !.handed = Append(@, [at |-> IF len = Small(0) THEN Small(0)
                                                                   ELSE at_val,
                                            length |-> len]),
                      !.outside = \/ @
                                  \/ ~InsideBody(at_tag, Small(4), cl)
                                  \/ ~InsideBody(at_len, Small(4), cl)
                                  \/ len # Small(0) /\ ~InsideBody(at_val, len, cl),
                      !.wrapped = \/ @
                                  \/ Wraps(off, Small(4))
                                  \/ Wraps(at_len, Small(4))
                                  \/ Wraps(at_val, len)]
    /\ YOnly({"walk"})

\* The loop ends.
WalkEnd ==
    /\ walk_pc = "loop"
    /\ ~WalkGuard(off, Len(walk_body))
    /\ walk' = [walk EXCEPT !.pc = "done"]
    /\ YOnly({"walk"})

WalkNext ==
    \/ \E junk1, junk2 \in Junk : WalkTurn(junk1, junk2)
    \/ WalkEnd


\* =========================================================================
\* msg_init, msg_retain and msg_free on message handles
\* =========================================================================
\* A handle is a variable of type rtsp_message *: NULL, the address of a
\* message, or what msg_free leaves in it when it has freed the message,
\* a number made of the index of the message.  msg_retain and msg_free
\* tell the three apart by the number alone: an address is what is above
\* 0x00010000.
FreedLimit == 65536
HeapBase == 131072
HThreads == 1..2

NullHandle == [kind |-> "null", v |-> 0]
MsgHandle(m) == [kind |-> "msg", v |-> m]
FreedHandle(n) == [kind |-> "freed", v |-> n]

\* the number that the handle holds
Address(hd) == IF hd.kind = "msg" THEN HeapBase + hd.v ELSE hd.v

\* A test that takes 0x00010000 for an address too (the variant against
\* which C39 is tried).
IsMessageFrom(hd) == Address(hd) >= FreedLimit

\* "msg > (rtsp_message *)0x00010000"
IsMessage(hd) == Address(hd) > FreedLimit

\* "index = (msg->index_number) & 0xFFFF; if (index == 0) index = 0x10000;"
Poisoned(index_number) ==
    IF index_number % 65536 = 0 THEN FreedLimit ELSE index_number % 65536

\* The state of this part: reference_counter_lock (its holder or 0), the
\* messages made, msg_indexes, the handle of each thread, the references
\* the thread holds through it, what the thread is calling, and whether
\* msg_free has been called on its handle after the message was freed
\* through it.
h_lock == handles.lock
h_msgs == handles.msgs
h_indexes == handles.msg_indexes
handle == handles.handle
h_pc == handles.pc
h_wild == handles.wild
h_refs == handles.refs

\* msg_init: a new message with one reference and the next index; the
\* thread keeps its address in its handle.
HandleInit(t) ==
    /\ h_pc[t] = "idle"
    /\ handle[t].kind # "msg"
    /\ Len(h_msgs) < MaxHandleMsgs
    /\ handles' = [handles EXCEPT
                      !.msgs = Append(@, [index_number |-> h_indexes,
                                          referenceCount |-> 1,
                                          frees |-> 0]),
                      !.msg_indexes = @ + 1,
                      !.handle[t] = MsgHandle(Len(h_msgs) + 1),
                      !.refs[t] = 1]
    /\ YOnly({"handles"})

\* A thread calls msg_retain(handle) or msg_free(&handle), whatever its
\* handle holds, and goes for the lock.
HandleCall(t, f) ==
    /\ h_pc[t] = "idle"
    /\ f = "msg_retain" /\ handle[t].kind = "msg"
          => h_msgs[handle[t].v].referenceCount < MaxRetains
    /\ handles' = [handles EXCEPT !.pc[t] = f]
    /\ YOnly({"handles"})

\* msg_retain with the lock: the count of a message goes up, the lock is
\* released, and the other thread gets the address for its reference; for
\* any other handle there is the message of the log only, and the function
\* returns.
HandleRetain(t) ==
    /\ h_pc[t] = "msg_retain"
    /\ h_lock = 0
    /\ LET hd == handle[t]
           u == CHOOSE u \in HThreads : u # t
       IN  handles' =
             IF IsMessage(hd)
                THEN [handles EXCEPT
                         !.msgs[hd.v].referenceCount = @ + 1,
                         !.handle[u] = IF handle[u].kind = "msg" THEN @ ELSE hd,
                         !.refs = IF handle[u].kind = "msg"
                                     THEN [@ EXCEPT ![t] = @ + 1]
                                     ELSE [@ EXCEPT ![u] = 1],
                         !.lock = 0,
                         !.pc[t] = "idle"]
                ELSE [handles EXCEPT !.lock = t, !.pc[t] = "idle"]
    /\ YOnly({"handles"})

\* msg_free with the lock: the count of a message goes down; at zero the
\* message is freed and the handle holds the number made of its index.
\* For a handle that holds no address nothing is done.  What is taken for
\* an address and is none is a wild access.  A thread that has given up the
\* last of its references while others hold theirs keeps the address no
\* longer: its variable ends with its reference.
HandleFree(t) ==
    /\ h_pc[t] = "msg_free"
    /\ h_lock = 0
    /\ LET hd == handle[t]
       IN  handles' =
             IF IsMessage(hd)
                THEN IF hd.kind # "msg"
                        THEN [handles EXCEPT !.wild = TRUE, !.pc[t] = "idle"]
                     ELSE IF h_msgs[hd.v].referenceCount - 1 = 0
                        THEN [handles EXCEPT
                                 !.msgs[hd.v].referenceCount = 0,
                                 !.msgs[hd.v].frees = @ + 1,
                                 !.handle[t] =
                                     FreedHandle(Poisoned(h_msgs[hd.v].index_number)),
                                 !.refs[t] = 0,
                                 !.pc[t] = "idle"]
                     ELSE [handles EXCEPT
                              !.msgs[hd.v].referenceCount = @ - 1,
                              !.handle[t] = IF h_refs[t] = 1 THEN NullHandle ELSE @,
                              !.refs[t] = @ - 1,
                              !.pc[t] = "idle"]
                ELSE [handles EXCEPT !.pc[t] = "idle",
                                     !.twice[t] = @ \/ hd.kind = "freed"]
    /\ YOnly({"handles"})

HandleNext ==
    \/ \E t \in HThreads : HandleInit(t)
    \/ \E t \in HThreads : \E f \in {"msg_retain", "msg_free"} : HandleCall(t, f)
    \/ \E t \in HThreads : HandleRetain(t)
    \/ \E t \in HThreads : HandleFree(t)


\* =========================================================================
\* The specifications
\* =========================================================================
\* The sinks at start: the queues made by pc_queue_init (count, toq and eoq
\* zero), no message, the handlers between requests, the consumers about to
\* get their first item.
QueueInit ==
    /\ referenceCount = [m \in Msgs |-> 0]
    /\ freed = [m \in Msgs |-> 0]
    /\ msg_indexes = 1
    /\ retains = [m \in Msgs |-> 0]
    /\ releases = [m \in Msgs |-> 0]
    /\ copies = {}
    /\ count = [q \in Sinks |-> 0]
    /\ toq = [q \in Sinks |-> 0]
    /\ eoq = [q \in Sinks |-> 0]
    /\ items = [q \in Sinks |-> [i \in Slots |-> NoPackage]]
    /\ pc_queue_lock = [q \in Sinks |-> Unlocked]
    /\ added = [q \in Sinks |-> 0]
    /\ taken = [q \in Sinks |-> 0]
    /\ ppc = [p \in Producers |-> "idle"]
    /\ preq = [p \in Producers |-> NULL]
    /\ psends = [p \in Producers |-> 0]
    /\ call = [p \in Producers |-> NoCallQ]
    /\ cpc = [q \in Sinks |-> "get"]
    /\ pack = [q \in Sinks |-> NoPackage]
    /\ ccancel = [q \in Sinks |-> FALSE]
    /\ deleted = [q \in Sinks |-> FALSE]

\* The connections of the authorization part at start: the record of a
\* connection is zeroed when it is accepted.
AuthInit ==
    /\ authorized = [c \in AuthConns |-> 0]
    /\ auth_nonce = [c \in AuthConns |-> NoNonce]
    /\ areq = [c \in AuthConns |-> NoRequest]
    /\ aresp = [c \in AuthConns |-> NoResp]
    /\ dispatched = [c \in AuthConns |-> FALSE]
    /\ apc = [c \in AuthConns |-> "read"]
    /\ nareq = 0

\* The reading part at start: nothing written, nothing read.
ReadInit(s) ==
    /\ reader = [script |-> s,
                 wire |-> << >>,
                 closed |-> FALSE,
                 rpc |-> "idle",
                 buf |-> << >>,
                 msg_size |-> -1,
                 the_packet |-> NoPacket,
                 reply |-> "none",
                 now |-> 0,
                 threshold_time |-> 0,
                 warning_message_sent |-> 0,
                 stal |-> 0]
    /\ conn_stop = 0

\* The SETUP part at start: a connection that has been accepted, its record
\* zeroed.
SetupInit ==
    setup = [holds_player |-> FALSE,
             conn_rtp_running |-> 0,
             remote_ports |-> NoPorts,
             local_ports |-> NoLocalPorts,
             rtp_setups |-> 0,
             setups |-> << >>]

\* The loop part at start: "int rtsp_read_request_attempt_count = 1", no
\* player.
LoopInit ==
    worker = [wpc |-> "test",
              conn_player_thread |-> 0,
              rtsp_read_request_attempt_count |-> 1,
              linger_zero |-> FALSE,
              replies |-> << >>,
              dispatches |-> 0,
              responses |-> 0,
              write_err |-> 0]

\* The watchdog part at the start of a worker: "conn->watchdog_bark_time =
\* get_absolute_time_in_ns()", the other fields of the record zero.
DogInit(config) ==
    watchdog = [dog_time |-> 1,
                timeout |-> config.timeout,
                dont_check_timeout |-> config.dont_check_timeout,
                cmd_unfixable |-> config.cmd_unfixable,
                watchdog_bark_time |-> 1,
                conn_watchdog_barks |-> 0,
                unfixable_error_reported |-> 0,
                commands |-> 0,
                stops_set |-> 0,
                cancels_sent |-> 0,
                dog_pc |-> "running",
                worker_pc |-> "loop",
                last_request |-> 1]

\* A configuration without timeout, and the configurations of the timeout.
NoTimeout == [timeout |-> 0, dont_check_timeout |-> 0, cmd_unfixable |-> FALSE]

Timeouts ==
    [timeout : {0, IdleTimeout}, dont_check_timeout : {0, 1},
     cmd_unfixable : BOOLEAN]

\* The reaper at the start of a pass over a table of n entries, which are
\* running or not; before any pass, with no entry.
ReapInit(n, flags) ==
    reaper = [conns |-> [k \in 1..n |-> k],
              nconns |-> n,
              i |-> 0,
              conn_running |-> flags,
              running_at_start |-> flags,
              joins |-> [c \in 1..n |-> 0],
              frees |-> [c \in 1..n |-> 0],
              found_running |-> {},
              reap_pc |-> "loop"]

\* The batch part when the handler of the request begins: the queue as
\* pc_queue_init leaves it.
BatchInit(tuples, rtptime) ==
    batch = [tuples |-> tuples,
             rtptime |-> rtptime,
             sent |-> 0,
             dropped |-> << >>,
             others |-> 0,
             queue |-> [items |-> [k \in 0..(Capacity - 1) |-> NoItem],
                        toq |-> 0, eoq |-> 0, count |-> 0, response |-> 0],
             taken |-> << >>]

\* rtsp_read_request begins on a stream that the socket splits after its
\* first at bytes (not at all if at is its length); before any stream.
SplitInit(stream, at) ==
    splitter = [stream |-> stream, at |-> at, wire |-> stream, buf |-> << >>,
                the_packet |-> NoMsg, msg_size |-> -1, pc |-> "header",
                reply |-> "ok"]

\* handle_set_parameter_metadata begins on a body: "off = 8".
WalkInit(body) ==
    walk = [body |-> body, off |-> Small(8), itag |-> Small(0), vl |-> Small(0),
            pc |-> "loop", turns |-> 0, begun |-> {}, again |-> FALSE,
            handed |-> << >>, outside |-> FALSE, wrapped |-> FALSE]

\* No message yet, the lock free, msg_indexes as the messages made before
\* have left it (1 at the start of the program).
HandlesInit(n) ==
    handles = [lock |-> 0, msgs |-> << >>, msg_indexes |-> n,
               handle |-> [t \in HThreads |-> NullHandle],
               refs |-> [t \in HThreads |-> 0],
               pc |-> [t \in HThreads |-> "idle"],
               wild |-> FALSE,
               twice |-> [t \in HThreads |-> FALSE]]

\* The parts of one thread at rest.
ThreadsInit ==
    /\ ReapInit(0, << >>) /\ BatchInit(0, FALSE)
    /\ SplitInit(<< >>, 0)
    /\ WalkInit(<< >>)
    /\ HandlesInit(1)

\* The parts beside the conversations at rest.
SidesInit ==
    /\ QueueInit /\ AuthInit /\ password = FALSE /\ SetupInit /\ LoopInit
    /\ DogInit(NoTimeout)

RestInit == SidesInit /\ ThreadsInit

\* The state at process start, no password configured.
Init == ConnInit /\ RestInit /\ ReadInit(<< >>)

\* The conversations: the listener, the workers, the watchdogs.
Spec == Init /\ [][Next]_vars

\* The conversations with ANNOUNCE requests only, the workers being threads
\* that run when they can.  A step of a worker changes the variables of the
\* conversations and no other, so these are the subscript of its fairness.
FairSpec ==
    Init /\ [][NextAnnounce]_vars /\ \A c \in Conns : WF_cvars(WorkerStep(c))

\* The state at process start with one value of the configuration the sinks
\* and the authorization do not read.
InitSinks == Init /\ allow_session_interruption = 1

\* The handlers and the consumers of the sinks, the session side at rest.
QueueSpec == InitSinks /\ [][QueueNext]_vars

\* The handlers and the consumers, and the consumers being stopped.
StopSpec == InitSinks /\ [][StopNext]_vars

\* The state at process start, a password configured or not.
InitAuth ==
    /\ ConnInit /\ allow_session_interruption = 1
    /\ QueueInit /\ AuthInit /\ password \in BOOLEAN /\ SetupInit /\ LoopInit
    /\ DogInit(NoTimeout)
    /\ ReadInit(<< >>)
    /\ ThreadsInit

\* The workers with their requests, the session side and the sinks at
\* rest.
AuthSpec == InitAuth /\ [][AuthNext]_vars

\* The state at the start of a connection whose sender has something to
\* write.
InitRead ==
    /\ ConnInit /\ allow_session_interruption = 1
    /\ RestInit /\ \E s \in Scripts : ReadInit(s)

\* One connection, its sender and its worker reading requests.
ReadSpec == InitRead /\ [][ReadNext]_vars

\* One connection and its SETUP requests.
SetupSpec == InitSinks /\ [][SetupNext]_vars

\* One worker, from its first read to its end.
LoopSpec == InitSinks /\ [][LoopNext]_vars

\* The state at the start of a worker, whatever the configuration of the
\* timeout.
InitDog ==
    /\ ConnInit /\ allow_session_interruption = 1
    /\ QueueInit /\ AuthInit /\ password = FALSE /\ SetupInit /\ LoopInit
    /\ ReadInit(<< >>)
    /\ \E config \in Timeouts : DogInit(config)
    /\ ThreadsInit

\* One worker and its watchdog.
DogSpec == InitDog /\ [][DogNext]_vars

\* The state at the start of a pass of the reaper: a table of up to
\* MaxTable connections, each running or not.
InitReap ==
    /\ ConnInit /\ allow_session_interruption = 1
    /\ SidesInit /\ ReadInit(<< >>)
    /\ \E n \in 0..MaxTable : \E flags \in [1..n -> {0, 1}] : ReapInit(n, flags)
    /\ BatchInit(0, FALSE)
    /\ SplitInit(<< >>, 0) /\ WalkInit(<< >>) /\ HandlesInit(1)

\* One pass of the reaper, the workers ending beside it.
ReapSpec == InitReap /\ [][ReapNext]_vars

\* The state when the handler of a SET_PARAMETER request with a DMAP body
\* begins.
InitBatch ==
    /\ ConnInit /\ allow_session_interruption = 1
    /\ SidesInit /\ ReadInit(<< >>)
    /\ ReapInit(0, << >>)
    /\ \E tuples \in 0..MaxTuples, rtptime \in BOOLEAN : BatchInit(tuples, rtptime)
    /\ SplitInit(<< >>, 0) /\ WalkInit(<< >>) /\ HandlesInit(1)

\* The batch of one request, another request and the consumer of the sink.
BatchSpec == InitBatch /\ [][BatchNext]_vars

\* The state when rtsp_read_request begins on the stream of one request,
\* split at any place or not at all.
InitSplit ==
    /\ ConnInit /\ allow_session_interruption = 1
    /\ SidesInit /\ ReadInit(<< >>)
    /\ ReapInit(0, << >>) /\ BatchInit(0, FALSE)
    /\ \E stream \in Streams : \E at \in 1..Len(stream) : SplitInit(stream, at)
    /\ WalkInit(<< >>) /\ HandlesInit(1)

\* One call of rtsp_read_request on a split stream.
SplitSpec == InitSplit /\ [][SplitNext]_vars

\* The state when handle_set_parameter_metadata begins on a body.
InitWalk ==
    /\ ConnInit /\ allow_session_interruption = 1
    /\ SidesInit /\ ReadInit(<< >>)
    /\ ReapInit(0, << >>) /\ BatchInit(0, FALSE)
    /\ SplitInit(<< >>, 0)
    /\ \E body \in Bodies : WalkInit(body)
    /\ HandlesInit(1)

\* One walk over a body.
WalkSpec == InitWalk /\ [][WalkNext]_vars

\* The state before the first message of this part, the program having
\* made no message, 65534 or 65535 messages before.
InitHandles ==
    /\ ConnInit /\ allow_session_interruption = 1
    /\ SidesInit /\ ReadInit(<< >>)
    /\ ReapInit(0, << >>) /\ BatchInit(0, FALSE)
    /\ SplitInit(<< >>, 0) /\ WalkInit(<< >>)
    /\ \E n \in {1, 65535, 65536} : HandlesInit(n)

\* Two threads with their handles.
HandleSpec == InitHandles /\ [][HandleNext]_vars

\* ============================================================== the claims
\* A connection observes itself equal to the session slot while the handler
\* that asked is running: have_player(conn) returned true to it, or
\* handle_announce has set have_the_player.
InHandler(c) ==
    pc[c] \in {"handler", "setup_release", "announce_parse", "announce_release"}

Observing(c) == InHandler(c) /\ (hp[c] = 1 \/ have_the_player[c] = 1)

\* C1: in every reachable state at most one connection observes itself equal
\* to the session slot, and the one that does is the connection the slot
\* designates.
C1_AtMostOneObserver ==
    /\ \A c, d \in Conns : Observing(c) /\ Observing(d) => c = d
    /\ \A c \in Conns : Observing(c) => playing_conn = c

\* C1, its case: a connection observes itself as the holder while another
\* connection is waiting for the slot in its ANNOUNCE.
C1_ObserverBesideWaiter ==
    \E c, d \in Conns : c # d /\ Observing(c) /\ pc[d] = "announce_wait"

\* C2 as the specification states it: every player_play, player_flush,
\* player_stop and player_volume call made for a connection is made while
\* that connection is the one the session slot designates.
C2_PlayerCallsByHolder ==
    player_call.fn # "none" => player_call.slot = player_call.conn

\* C2, the call that breaks it: player_volume for a connection while the
\* slot designates another connection.
C2_VolumeByNonHolder ==
    /\ player_call.fn = "volume"
    /\ player_call.slot \in Conns
    /\ player_call.slot # player_call.conn

\* C3 as the specification states it: a SETUP, RECORD, FLUSH, TEARDOWN,
\* PAUSE, GET_PARAMETER or SET_PARAMETER request of a connection that is not
\* the slot holder is answered 451.
SessionMethods == {"SETUP", "RECORD", "FLUSH", "TEARDOWN", "PAUSE",
                   "GET_PARAMETER", "SET_PARAMETER"}

C3_NonHolderGets451 ==
    \A c \in Conns :
        pc[c] = "respond" /\ method[c] \in SessionMethods /\ playing_conn # c
            => resp[c].respcode = 451

\* C3, the requests that break it: a GET_PARAMETER or SET_PARAMETER of a
\* connection that is not the holder is answered 200, its PAUSE 400.
C3_NonHolderAnsweredOtherwise ==
    \E c \in Conns :
        /\ pc[c] = "respond"
        /\ playing_conn \in Conns \ {c}
        /\ \/ method[c] = "GET_PARAMETER" /\ resp[c].respcode = 200
           \/ method[c] = "SET_PARAMETER" /\ resp[c].respcode = 200
           \/ method[c] = "PAUSE" /\ resp[c].respcode = 400

\* C4 as the specification states it: once a pre-empting ANNOUNCE waits, the
\* slot goes from the pre-empted holder to the pre-emptor.  So while the
\* pre-emptor waits, the slot is held by a connection that has been told to
\* stop, or it is empty: no other connection has it.
C4_SlotGoesToPreemptor ==
    \A b \in Conns :
        pc[b] = "announce_wait" /\ interrupting_current_session[b] = 1
            => playing_conn = NULL \/ stop[playing_conn] # 0

\* C4 as the code has it: with allow_session_interruption enabled, the
\* first region of b's ANNOUNCE, run while a holds the slot with its stop
\* flag clear, sets a's stop flag, cancels a's worker, leaves the slot with
\* a and starts to wait with the whole budget; under fair scheduling a
\* holder whose stop flag is set exits (once a holder's stop flag is set,
\* there comes a state in which every connection whose stop flag is set
\* has exited; the flag is never cleared); the pre-emptor's ANNOUNCE returns
\* 200 or 456 if one of its polls found the slot empty and took it (with 200
\* it holds the slot), and 453 if none did.
C4_Preemption ==
    /\ [][\A a, b \in Conns :
            /\ a # b /\ playing_conn = a /\ stop[a] = 0
            /\ allow_session_interruption = 1
            /\ pc[b] = "read" /\ method'[b] = "ANNOUNCE"
            => /\ stop'[a] = 1 /\ cancel'[a]
               /\ playing_conn' = a
               /\ pc'[b] = "announce_wait"
               /\ interrupting_current_session'[b] = 1
               /\ time_remaining'[b] = WaitBudget]_vars
    /\ [](\A b \in Conns :
            pc[b] = "respond" /\ method[b] = "ANNOUNCE"
              /\ interrupting_current_session[b] = 1
                => \/ /\ have_the_player[b] = 1
                      /\ resp[b].respcode \in {200, 456}
                      /\ resp[b].respcode = 200 => playing_conn = b
                   \/ /\ have_the_player[b] = 0
                      /\ resp[b].respcode = 453)
    /\ (playing_conn \in Conns /\ stop[playing_conn] # 0)
          ~> (\A a \in Conns : stop[a] # 0 => pc[a] = "exited")

\* C4, its cases: the pre-empted worker has exited and the pre-emptor's
\* ANNOUNCE has been answered 200 and holds the slot ...
C4_PreemptorServed ==
    \E a, b \in Conns :
        /\ a # b /\ pc[a] = "exited" /\ stop[a] = 1
        /\ pc[b] = "respond" /\ method[b] = "ANNOUNCE"
        /\ interrupting_current_session[b] = 1
        /\ resp[b].respcode = 200
        /\ playing_conn = b

\* ... or the pre-empted worker has exited, a third connection holds the
\* slot with its stop flag clear, and the pre-emptor's ANNOUNCE has been
\* answered 453.
C4_PreemptorTurnedAway ==
    \E b \in Conns :
        /\ pc[b] = "respond" /\ method[b] = "ANNOUNCE"
        /\ interrupting_current_session[b] = 1
        /\ resp[b].respcode = 453
        /\ playing_conn \in Conns \ {b}
        /\ stop[playing_conn] = 0
        /\ \A a \in Conns : stop[a] # 0 => pc[a] = "exited"

\* C5: with allow_session_interruption disabled, the ANNOUNCE of connection
\* b, read while connection a holds the slot with its stop flag clear,
\* returns 453 at once and leaves the slot with a, a's stop flag clear and
\* a's worker as cancelled or not as it was.
C5_BusyLeavesHolderUntouched ==
    [][\A a, b \in Conns :
          /\ a # b /\ playing_conn = a /\ stop[a] = 0
          /\ allow_session_interruption = 0
          /\ pc[b] = "read" /\ method'[b] = "ANNOUNCE"
          => /\ pc'[b] = "respond" /\ resp'[b].respcode = 453
             /\ playing_conn' = a
             /\ stop'[a] = 0
             /\ cancel'[a] = cancel[a]]_vars

\* C5, its case: b's ANNOUNCE has been answered 453 and a holds the slot,
\* neither stopped nor cancelled.
C5_BusyAnswered453 ==
    \E a, b \in Conns :
        /\ a # b /\ allow_session_interruption = 0
        /\ playing_conn = a /\ stop[a] = 0 /\ ~cancel[a]
        /\ pc[b] = "respond" /\ method[b] = "ANNOUNCE"
        /\ resp[b].respcode = 453 /\ should_wait[b] = 0

\* C6: a waiting ANNOUNCE has between 1 and WaitBudget / PollInterval polls
\* left; a poll that finds the slot empty claims it, and a poll that finds
\* it held leaves the slot as it is, counts PollInterval down and, when
\* nothing is left, ends the ANNOUNCE with 453.  The waiter writes the slot
\* only when it has found it empty.
PollStep(c) ==
    /\ pc[c] = "announce_wait"
    /\ pc'[c] # "cleanup"
    /\ pc'[c] # pc[c] \/ time_remaining'[c] # time_remaining[c]

C7_FailedAnnounceReleases ==
    \A c \in Conns :
        pc[c] = "respond" /\ method[c] = "ANNOUNCE"
          /\ resp[c].respcode \notin {200, 453}
            => playing_conn # c

\* C7, its case: an ANNOUNCE that had the slot has ended with 456.
C7_AnnounceEnded456 ==
    \E c \in Conns :
        /\ pc[c] = "respond" /\ method[c] = "ANNOUNCE"
        /\ have_the_player[c] = 1
        /\ resp[c].respcode = 456

\* C8: when handle_setup has returned to the slot holder, the response is
\* 451 and the connection does not hold the slot, or it is 200 with the
\* Transport and Session headers, the RTP side is set up and the connection
\* still holds the slot; the release of a failed SETUP leaves the slot
\* empty.
C8_SetupOfHolder ==
    /\ [](\A c \in Conns :
            pc[c] = "respond" /\ method[c] = "SETUP" /\ hp[c] = 1
                => \/ /\ resp[c].respcode = 451
                      /\ playing_conn # c
                   \/ /\ resp[c].respcode = 200
                      /\ {"Transport", "Session: 1"} \subseteq resp[c].headers
                      /\ local_audio_port[c] # 0
                      /\ playing_conn = c)
    /\ [][\A c \in Conns :
            pc[c] = "setup_release" /\ pc'[c] = "respond" /\ hp[c] = 1
                => resp'[c].respcode = 451 /\ playing_conn' = NULL]_vars

\* C8, its case: the SETUP of the holder has failed and the slot is empty.
C8_SetupFailed ==
    \E c \in Conns :
        /\ pc[c] = "respond" /\ method[c] = "SETUP" /\ hp[c] = 1
        /\ resp[c].respcode = 451
        /\ playing_conn = NULL

C10_CleanupReleases ==
    /\ [](\A c \in Conns :
            pc[c] \in {"cleanup_running", "exited"} => playing_conn # c)
    /\ [][\A c \in Conns :
            pc[c] = "cleanup_slot" /\ pc'[c] = "cleanup_running"
                => playing_conn' = IF playing_conn = c THEN NULL
                                                       ELSE playing_conn]_vars

\* C10, its case: the worker of a pre-empted holder has exited and the
\* pre-emptor has the slot.
C10_PreemptedHolderExited ==
    \E c, d \in Conns :
        /\ c # d
        /\ pc[c] = "exited" /\ stop[c] = 1
        /\ playing_conn = d
        /\ interrupting_current_session[d] = 1 /\ have_the_player[d] = 1

\* ------------------------------------------------- the claims on the sinks
\* The slots of a queue that hold an item: count slots from toq on.
LiveSlots(q) == {(toq[q] + k) % Capacity : k \in 0..(count[q] - 1)}

\* The call of producer p has a reference (or a copy) that is in no queue:
\* from the retain to the add, and after an add that failed.
InFlight(p) ==
    \/ ppc[p] \in {"add", "adding"}
    \/ ppc[p] = "added" /\ call[p].rc # 0

\* The references to message m that exist: the handler's, those of the
\* calls in flight, those of the packages in the queues and of the packages
\* being processed.
Holders(m) ==
    Cardinality({p \in Producers : preq[p] = m})
    + Cardinality({p \in Producers :
                     preq[p] = m /\ call[p].kind = "carrier" /\ InFlight(p)})
    + Cardinality({qi \in Sinks \X Slots :
                     /\ qi[2] \in LiveSlots(qi[1])
                     /\ items[qi[1]][qi[2]].carrier = m})
    + Cardinality({q \in Sinks : pack[q].carrier = m})

\* C11: for every message, the reference count is the number of references
\* that exist, the creating one and one per retain not yet released; it
\* never goes below zero; the message is freed once, when the count has
\* reached zero, and then retains and releases beyond the creating
\* reference are equal in number; no package queued or being processed
\* refers to a freed message.
C11_ReferenceCount ==
    \A m \in Msgs :
        /\ referenceCount[m] >= 0
        /\ referenceCount[m] = Holders(m)
        /\ m < msg_indexes => referenceCount[m] = 1 + retains[m] - releases[m]
        /\ freed[m] \in {0, 1}
        /\ freed[m] = 1 <=> (m < msg_indexes /\ referenceCount[m] = 0)
        /\ freed[m] = 1 => releases[m] = retains[m] + 1
        /\ freed[m] = 1 =>
              /\ \A q \in Sinks : pack[q].carrier # m
              /\ \A q \in Sinks : \A i \in LiveSlots(q) :
                    items[q][i].carrier # m

\* C11, its case: a message has been freed by a consumer, the handler
\* having released its reference before, while another message is still
\* held by its handler and by a package in a queue.
C11_FreedByConsumer ==
    \E m, n \in Msgs :
        /\ freed[m] = 1 /\ retains[m] >= 1
        /\ \E q \in Sinks : cpc[q] = "get" /\ taken[q] >= 1
        /\ referenceCount[n] = 2
        /\ \E q \in Sinks : \E i \in LiveSlots(q) : items[q][i].carrier = n

\* C12: the step of send_metadata_to_queue that follows a failed
\* pc_queue_add_item (EWOULDBLOCK: queue full; EBUSY: lock not obtained)
\* releases the one reference the call had retained, so that the call
\* leaves the count as it found it, or frees the copy the call had made;
\* the handler goes on as after a successful add, the result is not kept.
C12_FailedEnqueue ==
    [][\A p \in Producers :
          (ppc[p] = "added" /\ ppc'[p] # "added" /\ call[p].rc # 0) =>
              LET m == preq[p] IN
              /\ call[p].rc \in {EWOULDBLOCK, EBUSY}
              /\ call[p].kind = "carrier" =>
                    /\ call[p].net = 1
                    /\ referenceCount'[m] = referenceCount[m] - call[p].net
                    /\ releases'[m] = releases[m] + 1
                    /\ retains'[m] = retains[m]
              /\ call[p].kind # "carrier" =>
                    /\ <<m, psends[p], call[p].queue>> \notin copies'
                    /\ referenceCount' = referenceCount
              /\ ppc'[p] \in {"handler", "to_queue"}
              /\ call'[p].rc = 0
              /\ preq'[p] = m /\ psends'[p] = psends[p]]_vars

\* C12, its case: the queue is full of packages of other messages and
\* nothing has been taken from it; a handler has published with its message
\* as carrier, the retain has been released and the handler goes on, its
\* own reference the only one.
C12_DroppedAndReleased ==
    \E p \in Producers, q \in Sinks :
        LET m == preq[p] IN
        /\ ppc[p] = "handler" /\ psends[p] >= 1 /\ m # NULL
        /\ retains[m] = 1 /\ releases[m] = 1 /\ referenceCount[m] = 1
        /\ count[q] = Capacity /\ taken[q] = 0
        /\ \A i \in Slots : items[q][i].id[1] # m

\* C13: in every reachable state the count of every queue is at least 0 and
\* at most the capacity, whatever the order of the steps of the producers in
\* pc_queue_add_item and of the consumer in pc_queue_get_item.
C13_CountInRange ==
    \A q \in Sinks : 0 <= count[q] /\ count[q] <= Capacity

\* C13, its case: the queue is full, the consumer is in pc_queue_get_item
\* (in pthread_cond_wait, not yet woken), and a producer is in
\* pc_queue_add_item, holding the lock, with one more item to add.
C13_FullWithProducer ==
    \E q \in Sinks, p \in Producers :
        /\ count[q] = Capacity /\ cpc[q] = "waiting"
        /\ ppc[p] = "adding" /\ call[p].queue = q /\ pc_queue_lock[q] = p

\* C14: pc_queue_add_item that finds the queue full under the lock, with
\* either block flag, returns EWOULDBLOCK and leaves count, toq, eoq and the
\* items as they were, and it never waits for an item to be removed: the
\* step under the lock can always be taken, the lock is waited for only
\* while another producer is in its step under the lock, and the step after
\* the call can always be taken; no step of a consumer is needed.
C14_FullQueueNeverWaits ==
    /\ [][\A p \in Producers :
            LET q == call[p].queue IN
            (ppc[p] = "adding" /\ ppc'[p] = "added" /\ count[q] = Capacity) =>
                /\ call'[p].rc = EWOULDBLOCK
                /\ count'[q] = count[q] /\ toq'[q] = toq[q] /\ eoq'[q] = eoq[q]
                /\ items'[q] = items[q]
                /\ <<cpc, pack, taken>>' = <<cpc, pack, taken>>]_vars
    /\ [](\A p \in Producers :
            /\ ppc[p] = "adding" => ENABLED AddItem(p)
            /\ ppc[p] = "add" =>
                  \/ ENABLED AddLock(p)
                  \/ \E r \in Producers :
                        /\ pc_queue_lock[call[p].queue] = r
                        /\ ENABLED AddItem(r)
            /\ ppc[p] = "added" => ENABLED AfterAdd(p))

\* C14, its case: a call with block set has found the queue full and has
\* returned EWOULDBLOCK while the consumer has never taken an item.
C14_WouldBlockReturned ==
    \E p \in Producers, q \in Sinks :
        /\ ppc[p] = "added" /\ call[p].queue = q
        /\ call[p].block = 1 /\ call[p].rc = EWOULDBLOCK
        /\ count[q] = Capacity /\ taken[q] = 0 /\ cpc[q] = "get"

\* C15: in every queue the package the consumer takes is the one added
\* earliest among those not yet taken: the nth package taken is the nth
\* package added, so every added package is taken once and in the order of
\* the adds; the slots from toq on hold the packages added and not yet
\* taken, in that order, also when the indexes have wrapped around.
C15_Fifo ==
    /\ [](\A q \in Sinks :
            /\ taken[q] + count[q] = added[q]
            /\ toq[q] \in Slots /\ eoq[q] \in Slots
            /\ eoq[q] = (toq[q] + count[q]) % Capacity
            /\ \A k \in 0..(count[q] - 1) :
                  items[q][(toq[q] + k) % Capacity].nth = taken[q] + k + 1
            /\ cpc[q] = "process" => pack[q].nth = taken[q])
    /\ [][\A q \in Sinks :
            taken'[q] # taken[q] =>
                /\ taken'[q] = taken[q] + 1
                /\ pack'[q] = items[q][toq[q]]
                /\ pack'[q].nth = taken'[q]]_vars

\* C15, its case: the third package taken from a queue of two slots comes
\* from the slot the first one was in, and it is the package of the second
\* message, added after that of the third.
C15_ThirdTakenAfterWrap ==
    \E q \in Sinks :
        /\ cpc[q] = "process" /\ taken[q] = 3 /\ toq[q] = 1 % Capacity
        /\ pack[q].nth = 3 /\ pack[q].id[1] = 2

\* C16: the cancellation of a consumer that waits in pc_queue_get_item
\* takes the lock again and its cleanup handler releases it; neither step
\* takes an item or changes count, toq, eoq or the items; from the handler
\* on the consumer does not hold the lock, and a producer that wants the
\* lock of the queue can take it as soon as no other producer holds it.
C16_CancelledWaiter ==
    /\ [][\A q \in Sinks :
            (cpc[q] \in {"waiting", "cancel_wait"}
                /\ cpc'[q] \in {"cancel_wait", "cancel_thread"}
                /\ cpc'[q] # cpc[q]) =>
                /\ count'[q] = count[q] /\ toq'[q] = toq[q] /\ eoq'[q] = eoq[q]
                /\ items'[q] = items[q]
                /\ taken'[q] = taken[q]
                /\ pack'[q] = NoPackage
                /\ pc_queue_lock'[q] =
                      IF cpc'[q] = "cancel_wait" THEN Consumer(q) ELSE Unlocked]_vars
    /\ [](\A q \in Sinks :
            /\ cpc[q] \in {"cancel_thread", "cancelled"} =>
                  pc_queue_lock[q] # Consumer(q)
            /\ cpc[q] = "cancel_thread" =>
                  \A p \in Producers :
                      (ppc[p] = "add" /\ call[p].queue = q) =>
                          \/ ENABLED AddLock(p)
                          \/ \E r \in Producers :
                                pc_queue_lock[q] = r /\ ENABLED AddItem(r))

\* C16, its case: the consumer has been cancelled while it waited on a queue
\* that has never held an item, its cleanup handler has run, and a producer
\* now holds the lock of the queue, about to add the first item.
C16_ProducerAfterCancel ==
    \E q \in Sinks, p \in Producers :
        /\ cpc[q] = "cancel_thread" /\ ccancel[q]
        /\ added[q] = 0 /\ taken[q] = 0 /\ count[q] = 0
        /\ ppc[p] = "adding" /\ call[p].queue = q /\ pc_queue_lock[q] = p

\* ----------------------------------------- the claims on the authorization
\* The step in which the worker of connection c reads a request that parses
\* and handles it.
Handled(c) == apc[c] = "read" /\ apc'[c] = "write" /\ areq'[c].method # "none"

\* C17: the authorized flag of a connection, once 1, is 1 in every later
\* state; every request that parses on an authorized connection is
\* dispatched to its method handler whatever Authorization header it has or
\* lacks: no 401, no WWW-Authenticate header, the nonce left as it is.
C17_AuthorizedStays ==
    /\ [][\A c \in AuthConns : authorized[c] = 1 => authorized'[c] = 1]_vars
    /\ [][\A c \in AuthConns :
            (authorized[c] = 1 /\ Handled(c)) =>
                /\ dispatched'[c]
                /\ aresp'[c].respcode \in HandlerCodes(areq'[c].method)
                /\ \A h \in aresp'[c].headers : h[1] # "WWW-Authenticate"
                /\ auth_nonce'[c] = auth_nonce[c]]_vars

\* C17, its case: with a password configured, a connection that has been
\* authorized has a request without Authorization header dispatched.
C17_DispatchedWithoutHeader ==
    \E c \in AuthConns :
        /\ password /\ authorized[c] = 1 /\ auth_nonce[c] # NoNonce
        /\ apc[c] = "write" /\ dispatched[c]
        /\ areq[c].auth.kind = "none"
        /\ aresp[c].respcode = 200

\* The request carries an Authorization: Digest header whose response is
\* the digest of the configured password, the method of the request and the
\* nonce the connection had when the request arrived.
ValidDigest(req, nonce) ==
    /\ nonce # NoNonce
    /\ req.auth.kind = "digest"
    /\ req.auth.response = Digest("pw", req.method, nonce)

\* C18: with a password configured, a request on a connection not yet
\* authorized is dispatched only if it carries a Digest header whose
\* response is the digest made with the nonce of the connection, and then
\* the connection becomes authorized; every other request is answered 401
\* with exactly one WWW-Authenticate header, which carries the nonce of the
\* connection, and leaves the connection unauthorized; the nonce of a
\* connection, once made, never changes.
C18_DigestRequired ==
    /\ [][\A c \in AuthConns :
            (password /\ authorized[c] # 1 /\ Handled(c)) =>
                IF ValidDigest(areq'[c], auth_nonce[c])
                   THEN dispatched'[c] /\ authorized'[c] = 1
                   ELSE /\ ~dispatched'[c]
                        /\ authorized'[c] = authorized[c]
                        /\ aresp'[c].respcode = 401
                        /\ auth_nonce'[c] # NoNonce
                        /\ {h \in aresp'[c].headers : h[1] = "WWW-Authenticate"}
                              = {<<"WWW-Authenticate", auth_nonce'[c]>>}]_vars
    /\ [][\A c \in AuthConns :
            auth_nonce[c] # NoNonce => auth_nonce'[c] = auth_nonce[c]]_vars

\* C18, its case: a connection that was answered 401 has sent the digest
\* made with its nonce and is dispatched, while another connection, with
\* another nonce, is being answered 401.
C18_DigestAccepted ==
    \E c, d \in AuthConns :
        /\ password /\ c # d
        /\ apc[c] = "write" /\ dispatched[c] /\ authorized[c] = 1
        /\ ValidDigest(areq[c], auth_nonce[c])
        /\ apc[d] = "write" /\ aresp[d].respcode = 401
        /\ auth_nonce[d] \notin {NoNonce, auth_nonce[c]}
        /\ <<"WWW-Authenticate", auth_nonce[d]>> \in aresp[d].headers

\* C19 as the specification states it: every response a worker writes
\* carries the header Server: AirTunes/105.1 and, with the value the request
\* had, the header CSeq, whatever the status (200, 400, 401, 451, 453, 456).
C19_ServerAndCSeq ==
    \A c \in AuthConns :
        apc[c] = "write" =>
            /\ <<"Server", "AirTunes/105.1">> \in aresp[c].headers
            /\ areq[c].cseq # "" => <<"CSeq", areq[c].cseq>> \in aresp[c].headers

\* C19, the response that breaks it: a request with a CSeq line and a line
\* that does not parse is answered with the fixed 400 text, which has the
\* Server header and no CSeq header.
C19_BadPacketWithoutCSeq ==
    \E c \in AuthConns :
        /\ apc[c] = "write" /\ areq[c].method = "none" /\ areq[c].cseq = "7"
        /\ aresp[c].respcode = 400
        /\ <<"Server", "AirTunes/105.1">> \in aresp[c].headers
        /\ \A h \in aresp[c].headers : h[1] # "CSeq"

\* C20 as the specification states it: a PAUSE request on an authorized
\* connection is answered 200.
C20_PauseAnswered200 ==
    \A c \in AuthConns :
        (apc[c] = "write" /\ areq[c].method = "PAUSE" /\ dispatched[c]
            /\ authorized[c] = 1) => aresp[c].respcode = 200

\* C20, the request that breaks it: the PAUSE of a connection authorized by
\* its digest finds no handler and is answered with the 400 the response
\* was set up with.
C20_PauseAnswered400 ==
    \E c \in AuthConns :
        /\ password /\ authorized[c] = 1 /\ apc[c] = "write" /\ dispatched[c]
        /\ areq[c].method = "PAUSE"
        /\ aresp[c].respcode = 400
        /\ <<"CSeq", "7">> \in aresp[c].headers

\* rtsp_read_request has returned a request to the worker.
Delivered == rpc = "returned" /\ reply = "ok"

\* C21: the content length of a delivered message equals its Content-Length
\* header, and its content holds no byte the sender wrote after the body of
\* the request: the bytes of a request that follows in the same read are not
\* absorbed.
C21_ExactlyContentLength ==
    Delivered =>
        /\ the_packet.contentlength = the_packet.cl
        /\ \A j \in 1..Len(the_packet.content) :
              /\ the_packet.content[j].req = the_packet.req
              /\ the_packet.content[j].kind = "body"

\* C21: a message is delivered whose content is the request line of the
\* next request, read from the socket together with the headers.
C21_NextRequestAbsorbed ==
    /\ Delivered
    /\ the_packet.contentlength > the_packet.cl
    /\ \E j \in 1..Len(the_packet.content) :
          /\ the_packet.content[j].req = the_packet.req + 1
          /\ the_packet.content[j].kind = "request"

\* C22: in one call of rtsp_read_request the 'stal' event is published at
\* most once, and a body that is still incomplete more than fifteen seconds
\* after the body loop began has had it published: the read that completes
\* such a body finds the event published.
C22_StalOnceWhenLate ==
    /\ [](stal <= 1)
    /\ [][(/\ rpc = "body_read"
           /\ rpc' = "body"
           /\ Len(buf') >= msg_size
           /\ now > threshold_time) => stal = 1]_vars

\* C22: the worker waits in the read of the body loop, nothing to read, more
\* than fifteen seconds after the loop began, and no 'stal' event has been
\* published.
C22_BlockedPastThreshold ==
    /\ rpc = "body_read"
    /\ wire = << >>
    /\ ~closed
    /\ Len(buf) < msg_size
    /\ now > threshold_time
    /\ stal = 0

\* A SETUP that names the same control and timing port as the one before it,
\* which set up the RTP side and was answered 200.
DuplicateSetup(i) ==
    /\ i + 1 \in 1..Len(setups)
    /\ setups[i].called
    /\ setups[i].respcode = 200
    /\ setups[i + 1].transport = setups[i].transport

\* C23: of two consecutive SETUPs of the holder with the same control and
\* timing port only the first calls rtp_setup, and both are answered 200
\* with the same three local ports.
C23_OneRtpSetup ==
    \A i \in 1..Len(setups) :
        DuplicateSetup(i) =>
            /\ ~setups[i + 1].called
            /\ setups[i + 1].respcode = 200
            /\ setups[i + 1].ports = setups[i].ports
            /\ setups[i].ports.audio # 0

\* C23: a SETUP has been answered after one with the same ports that set up
\* the RTP side.
C23_SecondSetupAnswered ==
    /\ DuplicateSetup(1)
    /\ rtp_setups = 1
    /\ conn_rtp_running = 1

\* The last reply of rtsp_read_request, "none" before the first.
LastReply == IF replies = << >> THEN "none" ELSE replies[Len(replies)]

Terminal == {"immediate_shutdown_requested", "channel_closed"}
Retried == {"read_error", "bad_packet"}

\* C24: after rtsp_read_request has returned immediate_shutdown_requested or
\* channel_closed the worker reads no more: no reply follows such a reply,
\* stop is set, and the worker is at the test of its loop, which it leaves,
\* in its cleanup or gone.
C24_NoReadAfterShutdownOrClose ==
    /\ \A i \in 1..(Len(replies) - 1) : replies[i] \notin Terminal
    /\ LastReply \in Terminal =>
          /\ conn_stop = 1
          /\ wpc \in {"test", "cleanup", "exited"}
          /\ wpc = "test" => ENABLED LoopTest

\* C24: the worker of a connection with a player has run its cleanup after
\* a read that found the channel closed.
C24_CleanupAfterClose ==
    /\ LastReply = "channel_closed"
    /\ conn_player_thread # 0
    /\ Len(replies) > 1
    /\ wpc = "exited"

\* C25: after a read that failed with read_error or bad_packet the worker
\* reads at most once more: two such replies in a row are the last ones.
C25_AtMostOneRetry ==
    \A i \in 1..(Len(replies) - 2) :
        ~(replies[i] \in Retried /\ replies[i + 1] \in Retried)

\* C25: three reads in a row have returned bad_packet and the worker is about
\* to read again.
C25_ThirdBadPacketRead ==
    /\ Len(replies) = 3
    /\ \A i \in 1..3 : replies[i] = "bad_packet"
    /\ conn_stop = 0
    /\ wpc = "test"
    /\ ~linger_zero

C27_OneResponsePerRequest ==
    /\ dispatches <= 1
    /\ responses <= 1
    /\ (wpc = "reading" /\ LastReply = "ok") => responses = 1

\* C27: the worker reads its third request, the one before it handled and
\* answered.
C27_ThirdRead ==
    /\ wpc = "reading"
    /\ replies = <<"ok", "ok">>
    /\ dispatches = 1
    /\ responses = 1

\* The watchdog checks the timeout.
InForce == dont_check_timeout = 0 /\ timeout # 0

\* C28: with a timeout in force the watchdog has set stop and cancelled the
\* worker once if it has barked and never if it has not, however often it
\* has barked; it has run the command for an unfixable error once if one is
\* configured and it has barked three times, else never; it has ended only
\* if the worker's cleanup has run.  With a timeout of zero it never barks
\* and never sets stop.
C28_FirstAndThirdBark ==
    /\ stops_set = (IF conn_watchdog_barks >= 1 THEN 1 ELSE 0)
    /\ cancels_sent = stops_set
    /\ commands = (IF conn_watchdog_barks >= 3 /\ cmd_unfixable THEN 1 ELSE 0)
    /\ dog_pc = "ended" => worker_pc = "cleaned"
    /\ stops_set = 1 => conn_stop = 1
    /\ ~InForce => conn_watchdog_barks = 0 /\ conn_stop = 0

\* C28: the watchdog has barked four times and run the command.
C28_FourBarks ==
    /\ conn_watchdog_barks = 4
    /\ commands = 1
    /\ stops_set = 1
    /\ dog_pc = "running"

\* C29: the watchdog barks only when the time since the worker parsed its
\* last request has reached the timeout: a connection whose requests follow
\* each other faster is not barked at.
C29_NoBarkWhileRequestsArrive ==
    [][conn_watchdog_barks' > conn_watchdog_barks
          => dog_time' - last_request >= timeout]_vars

\* C29: the watchdog has barked and set stop in the period in which the
\* worker parsed a request.
C29_BarkedAfterRequest ==
    /\ conn_watchdog_barks = 1
    /\ conn_stop = 1
    /\ dog_time - last_request < timeout
    /\ dog_time - last_request <= 1

\* C30: once the cleanup of a worker has cleared the running flag of its
\* connection, the flag stays cleared.
C30_RunningStaysCleared ==
    [][\A c \in Conns :
          pc[c] = "exited" /\ running[c] = 0 => running'[c] = 0]_vars

\* C30: a connection whose worker has ended is tracked and marked running:
\* cleanup_threads, which joins and frees the connections that are not
\* marked running, passes it over.
C30_ExitedMarkedRunning ==
    \E c \in Conns :
        /\ pc[c] = "exited"
        /\ running[c] = 1
        /\ c \in tracked
        /\ listener = NULL

\* The connections that a pass of the reaper has joined, and the entries of
\* the table.
Reaped == {c \in DOMAIN joins : joins[c] > 0}
Table == {conns[k] : k \in 1..nconns}

\* C31: when a pass of cleanup_threads has ended, every connection of the
\* table has been joined as often as freed and at most once; the ones
\* joined are the ones not found running, their flag is clear, and every
\* connection whose flag was clear when the pass began is among them; the
\* table holds the connections found running, each once, and nconns is
\* their number.  During the pass no connection is joined or freed twice.
C31_ReapsFinishedOnce ==
    /\ \A c \in DOMAIN joins : joins[c] = frees[c] /\ joins[c] \in {0, 1}
    /\ \A c \in Reaped : conn_running[c] = 0
    /\ reap_pc = "done" =>
          /\ Reaped = DOMAIN joins \ found_running
          /\ \A c \in DOMAIN joins : running_at_start[c] = 0 => c \in Reaped
          /\ Table = found_running
          /\ Cardinality(Table) = nconns
          /\ Cardinality(found_running) = nconns

\* C31, its case: a pass over four entries has ended, the first, the
\* second and the last of them were finished and have been joined, the
\* third is the one entry left.
C31_AdjacentFirstLastReaped ==
    /\ reap_pc = "done"
    /\ Len(conns) = 4
    /\ Reaped = {1, 2, 4}
    /\ nconns = 1
    /\ conns[1] = 3

\* What the consumer of the sink has taken of the request, and the place of
\* an item in the batch that the claim names: mdst, the core items in the
\* order of the body, mden.
TakenOfRequest == SelectSeq(batch.taken, LAMBDA item : item.request = 1)
BatchRank(item) ==
    IF item.code = "mdst" THEN 0
    ELSE IF item.code = "mden" THEN batch.tuples + 1
    ELSE item.nth

\* C32: what the consumer of a sink has taken of the request is a
\* subsequence of mdst, one core item per tuple in the order of the body,
\* mden: every item taken is one of these, none is taken twice, and they
\* are taken in this order, so that no core item comes before the mdst or
\* after the mden of the request; an item that was dropped is not taken.
C32_BatchInOrder ==
    /\ \A a \in 1..Len(TakenOfRequest) :
          LET item == TakenOfRequest[a]
          IN  /\ \/ item.type = "ssnc" /\ item.code \in {"mdst", "mden"}
                 \/ item.type = "core" /\ item.nth \in 1..batch.tuples
              /\ \A d \in 1..Len(batch.dropped) : batch.dropped[d] # item
    /\ \A a, b \in 1..Len(TakenOfRequest) :
          a < b => BatchRank(TakenOfRequest[a]) < BatchRank(TakenOfRequest[b])

\* C32, its case: the consumer has taken the whole batch of a body of two
\* tuples, four items through a queue of two places, and an item of another
\* request between them.
C32_WholeBatchTaken ==
    /\ batch.tuples = 2
    /\ Len(TakenOfRequest) = 4
    /\ Len(batch.taken) = 5
    /\ batch.taken[1].request = 1
    /\ batch.taken[5].request = 1


\* ------------------------------------------------------------------- C33
\* The connection whose thread takes a step: the one whose position moves.
Stepper(c) ==
    /\ pc'[c] # pc[c]
    /\ \A d \in Conns \ {c} : pc'[d] = pc[d]

\* The slot goes from empty to c by a step of c's own ANNOUNCE...
SlotTakenBy(c) ==
    /\ playing_conn = NULL
    /\ playing_conn' = c
    /\ Stepper(c)
    /\ method'[c] = "ANNOUNCE"
    /\ pc[c] \in {"read", "announce_wait"}

\* ... and from c to empty by a step of c itself: the end of its failed
\* ANNOUNCE, of its failed SETUP, or its cleanup.
SlotGivenUpBy(c) ==
    /\ playing_conn = c
    /\ playing_conn' = NULL
    /\ Stepper(c)
    /\ pc[c] \in {"announce_release", "setup_release", "cleanup_slot"}

\* C33: the session slot changes only from empty to a connection, by that
\* connection's own ANNOUNCE, or from a connection to empty, by that same
\* connection's failed ANNOUNCE, failed SETUP or cleanup; it never passes
\* from one connection straight to another and is never cleared by a
\* connection that does not hold it.
C33_SlotChangesByItsOwner ==
    [][playing_conn' # playing_conn =>
           \E c \in Conns : SlotTakenBy(c) \/ SlotGivenUpBy(c)]_vars

\* The slot is empty again while a second connection is in its wait loop
\* and the first, which held it, is in its cleanup: the slot was taken by
\* the first connection's ANNOUNCE and given up by that connection.
C33_TakenThenGivenUp ==
    \E c, d \in Conns :
        /\ c # d
        /\ playing_conn = NULL
        /\ pc[c] \in {"cleanup_running", "exited"}
        /\ stop[c] # 0
        /\ pc[d] = "announce_wait"

\* ------------------------------------------------------------------- C34
\* C34: whenever a connection has a running player (player_play has been
\* called for it by RECORD and player_stop not yet), that connection is the
\* holder of the session slot, also after a later failing SETUP or failing
\* duplicate ANNOUNCE of the same connection.
C34_PlayerOnlyOfHolder ==
    \A c \in Conns : player_thread[c] # 0 => playing_conn = c

\* C34, its case: a failed SETUP of the connection whose player runs has
\* returned; the slot is empty and the player still runs.
C34_PlayerRunsAfterFailedSetup ==
    \E c \in Conns :
        /\ pc[c] = "respond" /\ method[c] = "SETUP"
        /\ resp[c].respcode = 451
        /\ player_thread[c] # 0
        /\ playing_conn = NULL

\* The same after a failed duplicate ANNOUNCE.
C34_PlayerRunsAfterFailedAnnounce ==
    \E c \in Conns :
        /\ pc[c] = "respond" /\ method[c] = "ANNOUNCE"
        /\ resp[c].respcode = 456
        /\ player_thread[c] # 0
        /\ playing_conn = NULL


\* ------------------------------------------------------------------- C35
\* The cleanup of connection c has cleared conn->running (its last
\* statement): from then on cleanup_threads may join and free c.
ClearedByCleanup(c) == pc[c] = "exited"

\* C35: the session slot never designates a connection whose cleanup has
\* cleared its running flag, so that the reaper cannot have freed what the
\* slot designates; in particular not in a step in which have_player
\* compares the slot or the first region of an ANNOUNCE reads
\* playing_conn->stop.
C35_SlotNeverOfCleared ==
    /\ [](\A c \in Conns : playing_conn = c => ~ClearedByCleanup(c))
    /\ [][\A d \in Conns :
            pc[d] = "read" /\ pc'[d] \in {"handler", "announce_wait"}
              /\ playing_conn \in Conns
                => ~ClearedByCleanup(playing_conn)]_vars

\* C35, its case: an ANNOUNCE has pre-empted a holder, the holder's cleanup
\* has cleared its running flag, and the slot now designates the connection
\* of the ANNOUNCE.
C35_SlotPassedOnBeforeCleared ==
    \E c, d \in Conns :
        /\ c # d
        /\ ClearedByCleanup(c)
        /\ stop[c] # 0
        /\ running[c] = 0
        /\ c \in tracked
        /\ playing_conn = d

\* ------------------------------------------------------------------- C36
\* The split is between the \r and the \n of one line terminator.
SplitInTerminator ==
    /\ split_at < Len(split_stream)
    /\ split_stream[split_at] = "CR"
    /\ split_stream[split_at + 1] = "LF"

\* C36: what rtsp_read_request delivers for a byte stream (the reply, the
\* method, the headers and the body) is the same for every place where the
\* socket splits the stream, a place between the \r and the \n of a line
\* terminator included, as for the stream read whole.
C36_SameForEverySplit ==
    split_pc = "returned"
        => Outcome(split_reply, split_msg) = ReadWhole(split_stream)

\* C36, its case: the call has returned on a stream split between the \r
\* and the \n of a terminator, and the headers of the message are not those
\* of the stream read whole.
C36_SplitInTerminatorDiffers ==
    /\ split_pc = "returned"
    /\ SplitInTerminator
    /\ split_reply = "ok"
    /\ ReadWhole(split_stream).reply = "ok"
    /\ split_msg.headers # ReadWhole(split_stream).msg.headers

\* For every other place of the split the outcome is that of the stream
\* read whole.
C36_SameForOtherSplits ==
    split_pc = "returned" /\ ~SplitInTerminator
        => Outcome(split_reply, split_msg) = ReadWhole(split_stream)

\* ------------------------------------------------------------------- C37
\* C37: for every DMAP body the walk reads and hands to send_metadata only
\* byte ranges that lie inside the request body (the tag, the length field
\* and the value of each tuple), and its offsets never wrap around the
\* range of 32 bits.
C37_WalkStaysInBody == ~outside /\ ~wrapped

\* C37, its case: the walk over a body of more than 8 and fewer than 16
\* bytes has taken its turn and has read behind the body.
C37_ReadsBehindShortBody ==
    /\ Len(walk_body) \in 9..15
    /\ turns = 1
    /\ outside

\* The walk has handed to send_metadata a value that the body does not
\* hold whole, its length field being larger than what is left.
C37_ValueBehindBody ==
    /\ turns = 1
    /\ Len(walk_body) >= 16
    /\ ~InsideBody(handed[1].at, handed[1].length, Len(walk_body))
    /\ handed[1].length = Small(2)

\* An offset has wrapped around, and the walk begins a turn where it has
\* begun one before: with a length field of 2^32 - 8 it does not end.
C37_WalkComesBack ==
    /\ wrapped
    /\ walk.again
    /\ off = Small(8)
    /\ Len(walk_body) = 16

\* Where every tuple is whole in the body, the walk does what the claim
\* says and ends at the end of the body.
C37_WholeTuplesAreWalked ==
    walk_pc = "done" /\ ~outside
        => /\ ~wrapped
           /\ off = Small(IF Len(walk_body) >= 8 THEN Len(walk_body) ELSE 8)

\* ------------------------------------------------------------------- C38
\* C38: msg_retain releases reference_counter_lock before it returns, for
\* every argument, a null and a freed handle included: a thread that is in
\* neither msg_retain nor msg_free does not hold the lock, so that a later
\* msg_retain or msg_free of any thread can take it.
C38_RetainReleasesLock ==
    \A t \in HThreads : h_pc[t] = "idle" => h_lock # t

\* C38, its case: a thread has returned from msg_retain on a handle that
\* holds no address, a null or a freed one, and still holds the lock, for
\* which the other thread waits in msg_free with a message to release.
C38_LockKeptAfterRetain ==
    \E t, u \in HThreads :
        /\ t # u
        /\ h_pc[t] = "idle"
        /\ h_lock = t
        /\ handle[t].kind = "freed"
        /\ h_pc[u] = "msg_free"
        /\ handle[u].kind = "msg"

\* ------------------------------------------------------------------- C39
\* C39: msg_free on a handle through which the message has been freed
\* already does nothing: no reference count changes, nothing is freed a
\* second time, no memory is touched, and the handle stays as it is, freed
\* and not null; so for every index of the message, those with sixteen
\* zero bits at their end included.
C39_FreeOfFreedIsNoOp ==
    [][\A t \in HThreads :
          h_pc[t] = "msg_free" /\ h_pc'[t] = "idle" /\ handle[t].kind = "freed"
              => /\ handles'.msgs = h_msgs
                 /\ handles'.handle = handle
                 /\ handles'.handle[t] # NullHandle
                 /\ ~handles'.wild]_vars

\* C39, its case: msg_free has returned a second time on the handle
\* through which message 65536 was freed; the handle holds 0x10000.
C39_FreedTwiceIndex65536 ==
    \E t \in HThreads :
        /\ handle[t] = FreedHandle(FreedLimit)
        /\ h_pc[t] = "idle"
        /\ handles.twice[t]
        /\ \E m \in 1..Len(h_msgs) :
              h_msgs[m].index_number = 65536 /\ h_msgs[m].frees = 1

====
